---- MODULE Spec2Model ----
(***************************************************************************)
(* A model of the SPA multi-agent sample: the Athena polling utility, the  *)
(* gateway creation script, the Glue crawler runner, the RFQ field         *)
(* extractor, the request handlers of the agent and the deployment script. *)
(* Each program is a state machine of its own, with its own specification; *)
(* the variables of the programs that a specification does not run stay at *)
(* their idle values.                                                      *)
(***************************************************************************)
EXTENDS Integers, Sequences, FiniteSets, TLC

VARIABLES
    \* ---- get_query_results (spa_multi_agent_system_v8.py) ----
    athena_state,     \* the state Athena reports for the query execution
    athena_reason,    \* its StateChangeReason, NoValue when absent
    q_pc,             \* position in get_query_results
    q_wait_count,     \* wait_count
    q_status,         \* status, the last value check_query_status returned
    q_checks,         \* the number of check_query_status calls made
    q_return,         \* the value returned, PyNone before the return
    \* ---- create_gateway (create_gateway.py) ----
    gw_state,         \* the status the control plane holds for the gateway
    g_pc,             \* position in create_gateway
    g_wait_count,     \* wait_count
    g_gateway_status, \* gateway_status, the last status a poll parsed
    g_polls,          \* the number of get-gateway commands run
    g_seen_ready,     \* a get-gateway poll has reported READY
    g_timeout_warned, \* "Gateway creation timeout, but continuing..." printed
    g_target_cmd_run, \* the create-gateway-target command was run
    g_target_created, \* ... and it returned 0
    \* ---- run_glue_crawlers (run_crawlers.py) ----
    crawler_state,    \* the state Glue holds for each crawler
    c_names,          \* crawler_names
    c_wait,           \* wait_for_completion
    c_pc,             \* position in run_glue_crawlers
    c_i,              \* index of crawler_name in the running for loop
    c_polled,         \* glue.get_crawler was called
    c_observed,       \* the <<name, state>> pairs get_crawler polls returned
    \* ---- _extract_rfq_data_from_context (spa_multi_agent_system_v8.py) ----
    e_pc,             \* position in _extract_rfq_data_from_context
    e_field,          \* which of the five extraction loops is running
    e_pat,            \* index of pattern in that loop
    e_consulted,      \* the patterns of the running loop given to re.findall
    e_matches,        \* what re.findall returned for each of them
    e_locals,         \* material_number, supplier_id, quantity, delivery_date, rfq_name
    e_return,         \* the dict returned
    \* ---- spa_multi_agent_system, spa_multi_agent_system_streaming ----
    memory_id,        \* the module global memory_id
    s_handler,        \* which of the two async generators runs
    s_payload,        \* payload
    s_pc,             \* position in the generator
    s_user_input,     \* user_input
    s_session_manager, \* session_manager
    s_memory_touched, \* the memory service was called for this request
    s_agent_created,  \* Agent(...) was constructed
    s_consumed,       \* the number of events taken from stream_async
    s_full_response,  \* full_response
    s_out,            \* the events the generator has yielded, in order
    \* ---- main (deploy_spa_multi_agent_system_v8.py) ----
    memories,         \* the ids of the memories the memory service holds
    s3_ci_bucket,     \* the code interpreter bucket: "absent" or "present"
    d_args,           \* args, the parsed command line
    d_memories_before, \* the memories that existed when the run began
    d_pc,             \* position in main
    d_steps,          \* the steps of main that succeeded, in order
    d_failed,         \* the step that failed, NoValue when none did
    d_s3_calls,       \* the S3 calls of create_code_interpreter_bucket
    d_create_calls,   \* the number of create_memory_and_wait calls
    d_created_id,     \* memory_result['id'] of that call
    d_spa_memory_id,  \* spa_memory_id
    d_memory_names,   \* <<name given to create_memory_and_wait, spa_memory_name>>
    d_config_file,    \* spa_multi_agent_system_configured.py as written
    d_authorizer,     \* authorizer_configuration given to Runtime.configure
    d_launch_called,  \* agentcore_runtime.launch was called
    d_status,         \* status
    d_attempt,        \* attempt
    d_polls,          \* what the status polls did: "ready", "failed", "raised"
    d_reported,       \* "[SUCCESS] Deployment successful!" was printed
    d_deploy_file,    \* <agent_name>_deployment.json as written
    \* ---- create_code_interpreter_bucket (deploy_spa_multi_agent_system_v8.py) ----
    s3_buckets,       \* what S3 holds of each account's code interpreter bucket
    b_n,              \* the number of create_code_interpreter_bucket calls made
    b_args,           \* <<account_id, region>> of the last call
    b_calls,          \* the S3 calls the last call made, in order
    b_result,         \* what the last call did: the name returned, or "raised"
    b_before,         \* what S3 held of the bucket when the last call began
    b_returned,       \* the arguments of the earlier calls that returned the name
    \* ---- get_gateway_access_token (spa_multi_agent_system_v8.py) ----
    clock,            \* time.time(), in seconds since the module was loaded
    oauth_configured, \* GATEWAY_TOKEN_URL, the client id and the secret are all set
    access_token_cache, \* the module global _access_token_cache
    token_expiry,     \* the module global _token_expiry
    issued,           \* the number of tokens the token endpoint has issued
    t_n,              \* the number of get_gateway_access_token calls made
    t_called_at,      \* time.time() in the last call
    t_cache_before,   \* _access_token_cache when the last call began
    t_expiry_before,  \* _token_expiry when the last call began
    t_requests,       \* the HTTP requests the last call made
    t_response,       \* the access_token of its response, PyNone when there is none
    t_return,         \* what the last call returned
    \* ---- get_mcp_tools (spa_multi_agent_system_v8.py) ----
    gateway_url_set,  \* GATEWAY_URL is set
    mcp_tools_cache,  \* the module global _mcp_tools_cache
    mcp_client,       \* the module global _mcp_client: the clients assigned to it so far
    mcp_tools,        \* the module global mcp_tools, PyNone before line 633 has run
    m_n,              \* the number of get_mcp_tools calls made
    m_cache_before,   \* _mcp_tools_cache when the last call began
    m_token_requests, \* the get_gateway_access_token calls of the last call
    m_clients_opened, \* the MCPClient objects it constructed
    m_list_calls,     \* its list_tools_sync calls
    m_return,         \* the list it returned
    \* ---- memory setup at module level (spa_multi_agent_system_v8.py) ----
    DEPLOYED_MEMORY_ID,   \* SPA_MEMORY_ID as configured
    DEPLOYED_MEMORY_NAME, \* SPA_MEMORY_NAME as configured
    ms_pc,            \* position in the memory setup
    ms_verified,      \* the ids get_memory answered for
    ms_list_calls,    \* the number of list_memories calls
    ms_listed,        \* what list_memories returned, <<>> before it did
    ms_session_manager,\* session_manager of a request handled after the setup
    \* ---- the agent's tools (spa_multi_agent_system_v8.py) ----
    tl_tool,          \* the tool the agent calls
    tl_input,         \* what its argument is like
    tl_stack,         \* the tool calls in progress, each with its position
    tl_exc,           \* an exception is in flight in the innermost call
    tl_ret,           \* what the call just finished returned to its caller
    tl_aws_failed,    \* an AWS call made for the tool raised
    tl_result,        \* what the agent got: a returned str, or the exception
    \* ---- spa_multi_agent_system: two requests in one event loop ----
    agent_stream,       \* per Agent: what its stream_async produces
    agent_cursor,       \* per Agent: the events its stream has handed out
    rq_payload,         \* per request: the payload
    rq_agent_fails,     \* per request: whether Agent(...) raises
    rq_pc,              \* per request: "start", "stream" or "done"
    rq_user_input,      \* per request: the local user_input
    rq_session_manager, \* per request: the local session_manager
    rq_agent,           \* per request: the local session_agent (0: none)
    rq_out              \* per request: the events yielded so far

athenaVars == <<athena_state, athena_reason, q_pc, q_wait_count, q_status,
                q_checks, q_return>>

gatewayVars == <<gw_state, g_pc, g_wait_count, g_gateway_status, g_polls,
                 g_seen_ready, g_timeout_warned, g_target_cmd_run,
                 g_target_created>>

crawlerVars == <<crawler_state, c_names, c_wait, c_pc, c_i, c_polled, c_observed>>

extractVars == <<e_pc, e_field, e_pat, e_consulted, e_matches, e_locals, e_return>>

streamVars == <<memory_id, s_handler, s_payload, s_pc, s_user_input,
                s_session_manager, s_memory_touched, s_agent_created,
                s_consumed, s_full_response, s_out>>

deployVars == <<memories, s3_ci_bucket, d_args, d_memories_before, d_pc,
                d_steps, d_failed, d_s3_calls, d_create_calls, d_created_id,
                d_spa_memory_id, d_memory_names, d_config_file, d_authorizer,
                d_launch_called, d_status, d_attempt, d_polls, d_reported,
                d_deploy_file>>

bucketVars == <<s3_buckets, b_n, b_args, b_calls, b_result,
                b_before, b_returned>>

tokenVars == <<clock, oauth_configured, access_token_cache,
               token_expiry, issued, t_n, t_called_at,
               t_cache_before, t_expiry_before, t_requests,
               t_response, t_return>>

mcpVars == <<gateway_url_set, mcp_tools_cache, mcp_client,
             mcp_tools, m_n, m_cache_before,
             m_token_requests, m_clients_opened,
             m_list_calls, m_return>>

setupVars == <<DEPLOYED_MEMORY_ID, DEPLOYED_MEMORY_NAME, ms_pc, ms_verified,
               ms_list_calls, ms_listed, ms_session_manager>>

toolVars == <<tl_tool, tl_input, tl_stack, tl_exc, tl_ret,
              tl_aws_failed, tl_result>>

requestVars == <<agent_stream, agent_cursor, rq_payload,
                 rq_agent_fails, rq_pc, rq_user_input,
                 rq_session_manager, rq_agent, rq_out>>

vars == <<athenaVars, gatewayVars, crawlerVars, extractVars,
          streamVars, deployVars, bucketVars, tokenVars, mcpVars,
          setupVars, toolVars, requestVars>>

\* Python's None, and "no value yet".
NoValue == "None"

\* None, where the other values are not strings.
PyNone == [none |-> TRUE]

(***************************************************************************)
(* get_query_results                                                       *)
(***************************************************************************)

\* max_wait = 30
q_max_wait == 30

\* The states on which the polling loop breaks.
LenientTerminalStates == {"SUCCEEDED", "FAILED", "CANCELLED", "RUNNING"}

TerminalStates == {"SUCCEEDED", "FAILED", "CANCELLED"}

\* The states of an Athena query execution.
QueryStates == {"QUEUED", "RUNNING"} \cup {"SUCCEEDED", "FAILED", "CANCELLED"}

\* The reasons Athena may attach to a state change.
Reasons == {"SYNTAX_ERROR"}

AthenaIdle ==
    /\ athena_state = "QUEUED"
    /\ athena_reason = NoValue
    /\ q_pc = "idle"
    /\ q_wait_count = 0
    /\ q_status = NoValue
    /\ q_checks = 0
    /\ q_return = PyNone

\* The call get_query_results(execution_id) of a query that was just started.
AthenaInit ==
    /\ athena_state = "QUEUED"
    /\ athena_reason = NoValue
    /\ q_pc = "loop"
    /\ q_wait_count = 0
    /\ q_status = NoValue
    /\ q_checks = 0
    /\ q_return = PyNone

\* The other programs do not run during get_query_results.
AthenaOnly ==
    UNCHANGED <<gatewayVars, crawlerVars, extractVars, streamVars,
                deployVars, bucketVars, tokenVars, mcpVars, setupVars, toolVars,
                requestVars>>

\* Athena moves the query on while the caller sleeps or polls.
AthenaProgress ==
    /\ AthenaOnly
    /\ q_pc \in {"loop", "decide"}
    /\ \/ /\ athena_state = "QUEUED"
          /\ athena_state' = "RUNNING"
          /\ UNCHANGED athena_reason
       \/ /\ athena_state = "RUNNING"
          /\ athena_state' = "SUCCEEDED"
          /\ UNCHANGED athena_reason
       \/ /\ athena_state \in {"QUEUED", "RUNNING"}
          /\ athena_state' \in {"FAILED", "CANCELLED"}
          /\ athena_reason' \in Reasons \cup {NoValue}
    /\ UNCHANGED <<q_pc, q_wait_count, q_status, q_checks, q_return>>

\* One iteration of the while loop: check_query_status, then break or sleep.
CheckStatus ==
    /\ AthenaOnly
    /\ q_pc = "loop"
    /\ q_wait_count < q_max_wait
    /\ q_status' = athena_state
    /\ q_checks' = q_checks + 1
    /\ IF q_status' \in TerminalStates
          THEN q_pc' = "decide" /\ UNCHANGED q_wait_count
          ELSE q_pc' = "loop" /\ q_wait_count' = q_wait_count + 1
    /\ UNCHANGED <<athena_state, athena_reason, q_return>>

\* athena.get_query_execution raises inside check_query_status: the exception
\* leaves get_query_results, which returns nothing.
CheckStatusRaises ==
    /\ AthenaOnly
    /\ q_pc = "loop"
    /\ q_wait_count < q_max_wait
    /\ q_checks' = q_checks + 1
    /\ q_pc' = "raised"
    /\ UNCHANGED <<athena_state, athena_reason, q_wait_count, q_status, q_return>>

\* The loop condition wait_count < max_wait fails.
LoopTimeout ==
    /\ AthenaOnly
    /\ q_pc = "loop"
    /\ ~(q_wait_count < q_max_wait)
    /\ q_pc' = "decide"
    /\ UNCHANGED <<athena_state, athena_reason, q_wait_count, q_status,
                   q_checks, q_return>>

\* The result set is fetched and returned whatever the last status was.
ReturnResultsWhateverStatus ==
    /\ AthenaOnly
    /\ q_pc = "decide"
    /\ q_return' = [kind |-> "ResultSet"]
    /\ q_pc' = "returned"
    /\ UNCHANGED <<athena_state, athena_reason, q_wait_count, q_status, q_checks>>

\* if status == 'SUCCEEDED': return athena.get_query_results(...)
ReturnResults ==
    /\ AthenaOnly
    /\ q_pc = "decide"
    /\ q_status = "SUCCEEDED"
    /\ q_return' = [kind |-> "ResultSet"]
    /\ q_pc' = "returned"
    /\ UNCHANGED <<athena_state, athena_reason, q_wait_count, q_status, q_checks>>

\* else: the error dict built from StateChangeReason or 'Unknown error'.
ReturnError ==
    /\ AthenaOnly
    /\ q_pc = "decide"
    /\ q_status # "SUCCEEDED"
    /\ q_return' = [kind |-> "error",
                    reason |-> IF athena_reason = NoValue
                                  THEN "Unknown error" ELSE athena_reason]
    /\ q_pc' = "returned"
    /\ UNCHANGED <<athena_state, athena_reason, q_wait_count, q_status, q_checks>>

\* The Athena call after the loop raises.
FetchRaises ==
    /\ AthenaOnly
    /\ q_pc = "decide"
    /\ q_pc' = "raised"
    /\ UNCHANGED <<athena_state, athena_reason, q_wait_count, q_status,
                   q_checks, q_return>>

AthenaNext ==
    \/ AthenaProgress
    \/ CheckStatus
    \/ CheckStatusRaises
    \/ LoopTimeout
    \/ ReturnResults
    \/ ReturnError
    \/ FetchRaises

(***************************************************************************)
(* create_gateway                                                          *)
(***************************************************************************)

\* max_wait = 60
g_max_wait == 60

\* time.sleep(5); wait_count += 5
g_poll_interval == 5

GatewayStatuses == {"CREATING", "READY", "FAILED"}

GatewayIdle ==
    /\ gw_state = NoValue
    /\ g_pc = "idle"
    /\ g_wait_count = 0
    /\ g_gateway_status = NoValue
    /\ g_polls = 0
    /\ g_seen_ready = FALSE
    /\ g_timeout_warned = FALSE
    /\ g_target_cmd_run = FALSE
    /\ g_target_created = FALSE

\* The call create_gateway(lambda_arn, pool, client, region).
GatewayInit ==
    /\ gw_state = NoValue
    /\ g_pc = "role"
    /\ g_wait_count = 0
    /\ g_gateway_status = NoValue
    /\ g_polls = 0
    /\ g_seen_ready = FALSE
    /\ g_timeout_warned = FALSE
    /\ g_target_cmd_run = FALSE
    /\ g_target_created = FALSE

GatewayOnly ==
    UNCHANGED <<athenaVars, crawlerVars, extractVars, streamVars,
                deployVars, bucketVars, tokenVars, mcpVars, setupVars, toolVars,
                requestVars>>

\* The control plane finishes (or fails) the creation of the gateway.
GatewayProgress ==
    /\ GatewayOnly
    /\ g_pc \in {"wait", "after_wait", "target"}
    /\ gw_state = "CREATING"
    /\ gw_state' \in {"READY", "FAILED"}
    /\ UNCHANGED <<g_pc, g_wait_count, g_gateway_status, g_polls, g_seen_ready,
                   g_timeout_warned, g_target_cmd_run, g_target_created>>

\* role_arn = create_gateway_role(...): outside every try block, so a boto3
\* error ends the run with the exception (ok = FALSE).
CreateGatewayRole ==
    /\ GatewayOnly
    /\ g_pc = "role"
    /\ \E ok \in BOOLEAN : g_pc' = IF ok THEN "create" ELSE "crashed"
    /\ UNCHANGED <<gw_state, g_wait_count, g_gateway_status, g_polls,
                   g_seen_ready, g_timeout_warned, g_target_cmd_run,
                   g_target_created>>

\* The create-gateway command: a nonzero return code, or output that does
\* not parse, ends the run with sys.exit(1).
CreateGatewayCmd ==
    /\ GatewayOnly
    /\ g_pc = "create"
    /\ \E ok \in BOOLEAN :
          IF ok THEN g_pc' = "wait" /\ gw_state' = "CREATING"
                ELSE g_pc' = "exit1" /\ UNCHANGED gw_state
    /\ UNCHANGED <<g_wait_count, g_gateway_status, g_polls, g_seen_ready,
                   g_timeout_warned, g_target_cmd_run, g_target_created>>

\* Whether an iteration of the wait loop breaks out of it.
PollBreaksOnAnyStatus(returncode, status) == returncode = 0

PollBreaks(returncode, status) == returncode = 0 /\ status = "READY"

\* One iteration of the wait loop: get-gateway, break on READY, else sleep.
PollGateway ==
    /\ GatewayOnly
    /\ g_pc = "wait"
    /\ g_wait_count < g_max_wait
    /\ g_polls' = g_polls + 1
    /\ \E returncode \in {0, 255} :
          /\ g_gateway_status' = IF returncode = 0 THEN gw_state
                                                   ELSE g_gateway_status
          /\ g_seen_ready' = (g_seen_ready \/ (returncode = 0 /\ gw_state = "READY"))
          /\ IF PollBreaks(returncode, gw_state)
                THEN g_pc' = "after_wait" /\ UNCHANGED g_wait_count
                ELSE g_pc' = "wait"
                     /\ g_wait_count' = g_wait_count + g_poll_interval
    /\ UNCHANGED <<gw_state, g_timeout_warned, g_target_cmd_run, g_target_created>>

\* get-gateway returned 0 with output json.loads cannot parse: except
\* Exception, sys.exit(1).
PollGatewayUnparsable ==
    /\ GatewayOnly
    /\ g_pc = "wait"
    /\ g_wait_count < g_max_wait
    /\ g_polls' = g_polls + 1
    /\ g_pc' = "exit1"
    /\ UNCHANGED <<gw_state, g_wait_count, g_gateway_status, g_seen_ready,
                   g_timeout_warned, g_target_cmd_run, g_target_created>>

\* The loop condition wait_count < max_wait fails.
WaitLoopExit ==
    /\ GatewayOnly
    /\ g_pc = "wait"
    /\ ~(g_wait_count < g_max_wait)
    /\ g_pc' = "after_wait"
    /\ UNCHANGED <<gw_state, g_wait_count, g_gateway_status, g_polls,
                   g_seen_ready, g_timeout_warned, g_target_cmd_run,
                   g_target_created>>

\* if wait_count >= max_wait: print the timeout warning; then go on to the
\* target in either case.
AfterWait ==
    /\ GatewayOnly
    /\ g_pc = "after_wait"
    /\ g_timeout_warned' = (g_wait_count >= g_max_wait)
    /\ g_pc' = "target"
    /\ UNCHANGED <<gw_state, g_wait_count, g_gateway_status, g_polls,
                   g_seen_ready, g_target_cmd_run, g_target_created>>

\* The create-gateway-target command: nonzero return code, sys.exit(1).
CreateGatewayTarget ==
    /\ GatewayOnly
    /\ g_pc = "target"
    /\ g_target_cmd_run' = TRUE
    /\ \E returncode \in {0, 255} :
          /\ g_target_created' = (returncode = 0)
          /\ g_pc' = IF returncode = 0 THEN "permission" ELSE "exit1"
    /\ UNCHANGED <<gw_state, g_wait_count, g_gateway_status, g_polls,
                   g_seen_ready, g_timeout_warned>>

\* get_caller_identity, add_permission (ResourceConflictException caught),
\* gateway_config.json written, return; any other error propagates.
FinishGateway ==
    /\ GatewayOnly
    /\ g_pc = "permission"
    /\ \E ok \in BOOLEAN : g_pc' = IF ok THEN "returned" ELSE "crashed"
    /\ UNCHANGED <<gw_state, g_wait_count, g_gateway_status, g_polls,
                   g_seen_ready, g_timeout_warned, g_target_cmd_run,
                   g_target_created>>

GatewayNext ==
    \/ GatewayProgress
    \/ CreateGatewayRole
    \/ CreateGatewayCmd
    \/ PollGateway
    \/ PollGatewayUnparsable
    \/ WaitLoopExit
    \/ AfterWait
    \/ CreateGatewayTarget
    \/ FinishGateway

(***************************************************************************)
(* run_glue_crawlers                                                       *)
(***************************************************************************)

\* The longest crawler_names list of the model.
MaxCrawlers == 2

\* The crawlers of the stack, as listed under __main__.
CrawlerNames == {"ChatApp-sap-data-crawler", "ChatApp-comp-data-crawler"}

\* The states Glue reports for a crawler.
CrawlerStates == {"READY", "RUNNING", "STOPPING"}

\* All sequences over S of length at most n.
SeqUpTo(S, n) == UNION {[1..k -> S] : k \in 0..n}

CrawlerIdle ==
    /\ crawler_state = [n \in CrawlerNames |-> "READY"]
    /\ c_names = <<>>
    /\ c_wait = FALSE
    /\ c_pc = "idle"
    /\ c_i = 1
    /\ c_polled = FALSE
    /\ c_observed = {}

\* The call run_glue_crawlers(crawler_names, wait_for_completion).
CrawlerInit ==
    /\ crawler_state \in [CrawlerNames -> CrawlerStates]
    /\ c_names \in SeqUpTo(CrawlerNames, MaxCrawlers)
    /\ c_wait \in BOOLEAN
    /\ c_pc = "start"
    /\ c_i = 1
    /\ c_polled = FALSE
    /\ c_observed = {}

CrawlerOnly ==
    UNCHANGED <<athenaVars, gatewayVars, extractVars, streamVars,
                deployVars, bucketVars, tokenVars, mcpVars, setupVars, toolVars,
                requestVars>>

\* Glue moves a crawler on: a run ends by STOPPING and then READY.
CrawlerProgress ==
    /\ CrawlerOnly
    /\ c_pc \in {"start", "wait"}
    /\ \E n \in CrawlerNames :
          /\ crawler_state[n] # "READY"
          /\ crawler_state' = [crawler_state EXCEPT
                 ![n] = IF crawler_state[n] = "RUNNING" THEN "STOPPING" ELSE "READY"]
    /\ UNCHANGED <<c_names, c_wait, c_pc, c_i, c_polled, c_observed>>

\* One iteration of the first for loop: start_crawler starts a READY crawler;
\* CrawlerRunningException and every other error are printed and the loop
\* goes on.
StartCrawler ==
    /\ CrawlerOnly
    /\ c_pc = "start"
    /\ c_i <= Len(c_names)
    /\ \E ok \in BOOLEAN :
          crawler_state' =
              IF ok /\ crawler_state[c_names[c_i]] = "READY"
                 THEN [crawler_state EXCEPT ![c_names[c_i]] = "RUNNING"]
                 ELSE crawler_state
    /\ c_i' = c_i + 1
    /\ UNCHANGED <<c_names, c_wait, c_pc, c_polled, c_observed>>

\* The first loop is over: if wait_for_completion, the second one begins.
StartLoopDone ==
    /\ CrawlerOnly
    /\ c_pc = "start"
    /\ c_i > Len(c_names)
    /\ c_pc' = IF c_wait THEN "wait" ELSE "returned"
    /\ c_i' = 1
    /\ UNCHANGED <<crawler_state, c_names, c_wait, c_polled, c_observed>>

\* elif state in ['RUNNING', 'STOPPING']: sleep and poll again.
KeepsWaitingOnRunningOnly(state) == state = "RUNNING"

KeepsWaiting(state) == state \in {"RUNNING", "STOPPING"}

\* One iteration of while True for crawler_names[c_i]: get_crawler, then
\* break on READY, sleep on RUNNING or STOPPING, break on anything else.
PollCrawler ==
    /\ CrawlerOnly
    /\ c_pc = "wait"
    /\ c_i <= Len(c_names)
    /\ LET state == crawler_state[c_names[c_i]] IN
          /\ c_observed' = c_observed \cup {<<c_names[c_i], state>>}
          /\ c_i' = IF state = "READY" THEN c_i + 1
                    ELSE IF KeepsWaiting(state) THEN c_i
                    ELSE c_i + 1
    /\ c_polled' = TRUE
    /\ UNCHANGED <<crawler_state, c_names, c_wait, c_pc>>

\* glue.get_crawler raises: nothing catches it, the function does not return.
PollCrawlerRaises ==
    /\ CrawlerOnly
    /\ c_pc = "wait"
    /\ c_i <= Len(c_names)
    /\ c_polled' = TRUE
    /\ c_pc' = "raised"
    /\ UNCHANGED <<crawler_state, c_names, c_wait, c_i, c_observed>>

\* The second loop is over: the function returns.
WaitLoopDone ==
    /\ CrawlerOnly
    /\ c_pc = "wait"
    /\ c_i > Len(c_names)
    /\ c_pc' = "returned"
    /\ UNCHANGED <<crawler_state, c_names, c_wait, c_i, c_polled, c_observed>>

CrawlerNext ==
    \/ CrawlerProgress
    \/ StartCrawler
    \/ StartLoopDone
    \/ PollCrawler
    \/ PollCrawlerRaises
    \/ WaitLoopDone

(***************************************************************************)
(* _extract_rfq_data_from_context                                          *)
(*                                                                         *)
(* Strings are sequences of characters.  re.findall is the library's: the  *)
(* model takes what it returns for a pattern on full_text (the list of the *)
(* pattern's one capturing group, in text order) as an input, chosen when  *)
(* the loop hands the pattern to it.                                       *)
(***************************************************************************)

\* The longest list re.findall returns in the model.
MaxMatches == 2

\* A Python str of the extractor.
PyStr(s) == [str |-> s]

\* The keys of the returned dict, in the order of the five loops.
Fields == <<"material_number", "supplier_id", "quantity", "delivery_date",
            "rfq_name">>

\* len(material_patterns), len(supplier_patterns), len(quantity_patterns),
\* len(delivery_patterns), len(rfq_name_patterns).
PatternCount == <<4, 5, 6, 5, 6>>

Whitespace == {" "}

\* What the capturing group of a field's patterns can hold: [A-Z0-9\-]+,
\* [0-9]+ and the date shape hold no whitespace; the group [^"';\n]+ of the
\* rfq_name patterns holds any run of characters without quote, semicolon or
\* newline, blanks included.
CapturesOf(f) ==
    IF Fields[f] = "rfq_name"
       THEN {<<"Q">>, <<"Q", " ">>, <<" ", "R">>, <<" ">>}
       ELSE {<<"A">>, <<"B", "7">>}

\* str.strip(): leading and trailing whitespace removed.
RECURSIVE LStrip(_)
LStrip(s) == IF s # <<>> /\ Head(s) \in Whitespace THEN LStrip(Tail(s)) ELSE s

RECURSIVE RStrip(_)
RStrip(s) ==
    IF s # <<>> /\ s[Len(s)] \in Whitespace
       THEN RStrip(SubSeq(s, 1, Len(s) - 1)) ELSE s

Strip(s) == LStrip(RStrip(s))

\* matches[-1]
PickFirstMatch(matches) == matches[1]

PickMatch(matches) == matches[Len(matches)]

\* The value a loop assigns on a match: matches[-1], and for rfq_name
\* matches[-1].strip().
Assigned(f, matches) ==
    IF Fields[f] = "rfq_name" THEN PyStr(Strip(PickMatch(matches)))
                              ELSE PyStr(PickMatch(matches))

NoLocals == [k \in {Fields[f] : f \in 1..5} |-> PyNone]

ExtractIdle ==
    /\ e_pc = "idle"
    /\ e_field = 1
    /\ e_pat = 1
    /\ e_consulted = {}
    /\ e_matches = <<>>
    /\ e_locals = NoLocals
    /\ e_return = PyNone

\* The call _extract_rfq_data_from_context(user_input, conversation_context),
\* at the first loop (material_number = None).
ExtractInit ==
    /\ e_pc = "loop"
    /\ e_field = 1
    /\ e_pat = 1
    /\ e_consulted = {}
    /\ e_matches = [i \in 1..PatternCount[1] |-> <<>>]
    /\ e_locals = NoLocals
    /\ e_return = PyNone

ExtractOnly ==
    UNCHANGED <<athenaVars, gatewayVars, crawlerVars, streamVars,
                deployVars, bucketVars, tokenVars, mcpVars, setupVars, toolVars,
                requestVars>>

\* One iteration of a field's for loop: matches = re.findall(pattern, ...);
\* if matches: assign from matches[-1] and break.  The loop also ends after
\* its last pattern.
ConsultPattern ==
    /\ ExtractOnly
    /\ e_pc = "loop"
    /\ e_pat <= PatternCount[e_field]
    /\ \E matches \in SeqUpTo(CapturesOf(e_field), MaxMatches) :
          /\ e_consulted' = e_consulted \cup {e_pat}
          /\ e_matches' = [e_matches EXCEPT ![e_pat] = matches]
          /\ IF matches # <<>>
                THEN /\ e_locals' = [e_locals EXCEPT
                                        ![Fields[e_field]] = Assigned(e_field, matches)]
                     /\ e_pc' = "loop_done"
                     /\ UNCHANGED e_pat
                ELSE /\ UNCHANGED e_locals
                     /\ e_pat' = e_pat + 1
                     /\ e_pc' = IF e_pat' > PatternCount[e_field]
                                   THEN "loop_done" ELSE "loop"
    /\ UNCHANGED <<e_field, e_return>>

\* The next field's loop begins: <field> = None, for pattern in <patterns>.
NextField ==
    /\ ExtractOnly
    /\ e_pc = "loop_done"
    /\ e_field < 5
    /\ e_field' = e_field + 1
    /\ e_pat' = 1
    /\ e_consulted' = {}
    /\ e_matches' = [i \in 1..PatternCount[e_field'] |-> <<>>]
    /\ e_locals' = [e_locals EXCEPT ![Fields[e_field']] = PyNone]
    /\ e_pc' = "loop"
    /\ UNCHANGED e_return

\* return {"material_number": material_number, ..., "rfq_name": rfq_name}
ReturnExtracted ==
    /\ ExtractOnly
    /\ e_pc = "loop_done"
    /\ e_field = 5
    /\ e_return' = [material_number |-> e_locals["material_number"],
                    supplier_id |-> e_locals["supplier_id"],
                    quantity |-> e_locals["quantity"],
                    delivery_date |-> e_locals["delivery_date"],
                    rfq_name |-> e_locals["rfq_name"]]
    /\ e_pc' = "returned"
    /\ UNCHANGED <<e_field, e_pat, e_consulted, e_matches, e_locals>>

ExtractNext ==
    \/ ConsultPattern
    \/ NextField
    \/ ReturnExtracted

(***************************************************************************)
(* spa_multi_agent_system and spa_multi_agent_system_streaming             *)
(***************************************************************************)

\* The most events the agent's stream_async produces in the model.
MaxEvents == 3

\* payload.get("prompt") values: missing or None, the empty string, a prompt.
PromptValues == {NoValue, "", "show vendors"}

\* The dict payloads: any of the keys "prompt" and "user_id".
DictPayloads ==
    {[type |-> "dict", items |-> d] :
        d \in UNION {[K -> PromptValues] : K \in SUBSET {"prompt"}}}
    \cup
    {[type |-> "dict", items |-> d @@ [user_id |-> "u1"]] :
        d \in UNION {[K -> PromptValues] : K \in SUBSET {"prompt"}}}

\* The payloads of the model: None, strings, lists and dicts.
Payloads ==
    {[type |-> "NoneType", items |-> <<>>],
     [type |-> "str", items |-> <<>>],
     [type |-> "str", items |-> <<"h", "i">>],
     [type |-> "list", items |-> <<>>]} \cup DictPayloads

\* Python truth of a payload: None and empty containers are false.
Truthy(payload) ==
    /\ payload.type # "NoneType"
    /\ DOMAIN payload.items # {}

\* if not payload or not isinstance(payload, dict)
InvalidFormat(payload) == ~Truthy(payload) \/ payload.type # "dict"

\* payload.get(key, default)
DictGet(payload, key, default) ==
    IF key \in DOMAIN payload.items THEN payload.items[key] ELSE default

\* if not user_input
PromptIsNone(user_input) == user_input = NoValue

PromptMissing(user_input) == user_input = NoValue \/ user_input = ""

\* The return after the invalid-format error was yielded.
FallThroughToPrompt == "prompt"

AfterInvalidFormat == "done"

\* The error events of the two generators.
ErrorEvent(handler, entry_msg, streaming_msg) ==
    IF handler = "entrypoint" THEN [error |-> entry_msg]
    ELSE [type |-> "error", data |-> streaming_msg]

\* The text chunks of the model.
Chunks == {<<>>, <<"a">>, <<"b", "c">>}

\* The events stream_async produces: text ('data'), a value under 'data'
\* that is no str, tool use with and without a name, both keys at once, the
\* end of a turn, and an event with none of these keys.
AgentEvents ==
    {[data |-> PyStr(c)] : c \in Chunks}
    \cup {[data |-> PyNone],
          [data |-> PyStr(<<"a">>), current_tool_use |-> [name |-> "query_athena"]],
          [current_tool_use |-> [name |-> "query_athena"]],
          [current_tool_use |-> [toolUseId |-> "t1"]],
          [type |-> "agent_turn_complete"],
          [init_event_loop |-> TRUE]}

\* "".join(full_response) with a separator.
RECURSIVE JoinWithBlank(_)
JoinWithBlank(list) ==
    IF list = <<>> THEN <<>>
    ELSE IF Len(list) = 1 THEN list[1].str
    ELSE list[1].str \o <<" ">> \o JoinWithBlank(Tail(list))

\* "".join(full_response)
RECURSIVE Join(_)
Join(list) == IF list = <<>> THEN <<>> ELSE list[1].str \o Join(Tail(list))

StreamIdle ==
    /\ memory_id = NoValue
    /\ s_handler = "entrypoint"
    /\ s_payload = [type |-> "NoneType", items |-> <<>>]
    /\ s_pc = "idle"
    /\ s_user_input = NoValue
    /\ s_session_manager = NoValue
    /\ s_memory_touched = FALSE
    /\ s_agent_created = FALSE
    /\ s_consumed = 0
    /\ s_full_response = <<>>
    /\ s_out = <<>>

\* A request arrives at one of the two generators, after module start-up
\* left memory_id at None or at a memory id.
StreamInit ==
    /\ memory_id \in {NoValue, "mem-1"}
    /\ s_handler \in {"entrypoint", "streaming"}
    /\ s_payload \in Payloads
    /\ s_pc = "validate"
    /\ s_user_input = NoValue
    /\ s_session_manager = NoValue
    /\ s_memory_touched = FALSE
    /\ s_agent_created = FALSE
    /\ s_consumed = 0
    /\ s_full_response = <<>>
    /\ s_out = <<>>

StreamOnly ==
    UNCHANGED <<athenaVars, gatewayVars, crawlerVars, extractVars,
                deployVars, bucketVars, tokenVars, mcpVars, setupVars, toolVars,
                requestVars>>

\* except Exception as e: yield the error event; the generator ends.
YieldsHandlerError ==
    /\ s_out' = Append(s_out, ErrorEvent(s_handler, "Error processing request",
                                          "Error processing request"))
    /\ s_pc' = "done"

\* if not payload or not isinstance(payload, dict): yield error; return
ValidatePayload ==
    /\ StreamOnly
    /\ s_pc = "validate"
    /\ IF InvalidFormat(s_payload)
          THEN /\ s_out' = Append(s_out, ErrorEvent(s_handler,
                                  "Invalid request format",
                                  "Error: Invalid request format."))
               /\ s_pc' = AfterInvalidFormat
          ELSE /\ s_pc' = "prompt"
               /\ UNCHANGED s_out
    /\ UNCHANGED <<memory_id, s_handler, s_payload, s_user_input,
                   s_session_manager, s_memory_touched, s_agent_created,
                   s_consumed, s_full_response>>

\* user_input = payload.get("prompt"); if not user_input: yield error; return.
\* On a payload that is no dict, .get raises and the except clause answers.
GetPrompt ==
    /\ StreamOnly
    /\ s_pc = "prompt"
    /\ IF s_payload.type # "dict"
          THEN YieldsHandlerError /\ UNCHANGED s_user_input
          ELSE /\ s_user_input' = DictGet(s_payload, "prompt", NoValue)
               /\ IF PromptMissing(s_user_input')
                     THEN /\ s_out' = Append(s_out, ErrorEvent(s_handler,
                                             "No prompt provided in request",
                                             "Error: No prompt provided in request."))
                          /\ s_pc' = "done"
                     ELSE /\ s_pc' = "session"
                          /\ UNCHANGED s_out
    /\ UNCHANGED <<memory_id, s_handler, s_payload, s_session_manager,
                   s_memory_touched, s_agent_created, s_consumed,
                   s_full_response>>

\* session_manager = None; if memory_id: try AgentCoreMemorySessionManager(...)
\* except: session_manager = None.
CreateSessionManager ==
    /\ StreamOnly
    /\ s_pc = "session"
    /\ IF memory_id # NoValue /\ memory_id # ""
          THEN /\ s_memory_touched' = TRUE
               /\ \E ok \in BOOLEAN :
                     s_session_manager' =
                        IF ok THEN [memory_id |-> memory_id,
                                    session_id |-> DictGet(s_payload, "user_id",
                                                           "default-user")]
                              ELSE NoValue
          ELSE UNCHANGED <<s_session_manager, s_memory_touched>>
    /\ s_pc' = "agent"
    /\ UNCHANGED <<memory_id, s_handler, s_payload, s_user_input,
                   s_agent_created, s_consumed, s_full_response, s_out>>

\* session_agent = Agent(...): it is built, or the constructor raises.
CreateAgent ==
    /\ StreamOnly
    /\ s_pc = "agent"
    /\ \E ok \in BOOLEAN :
          IF ok THEN /\ s_agent_created' = TRUE
                     /\ s_pc' = "stream"
                     /\ UNCHANGED s_out
                ELSE YieldsHandlerError /\ UNCHANGED s_agent_created
    /\ UNCHANGED <<memory_id, s_handler, s_payload, s_user_input,
                   s_session_manager, s_memory_touched, s_consumed,
                   s_full_response>>

\* One iteration of async for event in session_agent.stream_async(...).
\* The entrypoint yields the event as it is.  The streaming generator yields
\* a chunk for an event with 'data' (and then fails on chunk[:50] when the
\* data is no str), a tool event for one with only 'current_tool_use', and
\* nothing for the others.
HandleAgentEvent ==
    /\ StreamOnly
    /\ s_pc = "stream"
    /\ s_consumed < MaxEvents
    /\ s_consumed' = s_consumed + 1
    /\ s_memory_touched' = (s_memory_touched \/ s_session_manager # NoValue)
    /\ \E event \in AgentEvents :
          IF s_handler = "entrypoint"
             THEN /\ s_out' = Append(s_out, event)
                  /\ UNCHANGED <<s_full_response, s_pc>>
          ELSE IF "data" \in DOMAIN event
             THEN /\ s_full_response' = Append(s_full_response, event.data)
                  /\ IF event.data = PyNone
                        THEN /\ s_out' = s_out \o
                                 <<[type |-> "chunk", data |-> event.data],
                                   ErrorEvent(s_handler, "Error processing request",
                                              "Error processing request")>>
                             /\ s_pc' = "done"
                        ELSE /\ s_out' = Append(s_out,
                                     [type |-> "chunk", data |-> event.data])
                             /\ UNCHANGED s_pc
          ELSE IF "current_tool_use" \in DOMAIN event
             THEN /\ s_out' = Append(s_out,
                        [type |-> "tool",
                         data |-> [tool_name |->
                                      IF "name" \in DOMAIN event.current_tool_use
                                         THEN event.current_tool_use.name
                                         ELSE "unknown",
                                   status |-> "executing"]])
                  /\ UNCHANGED <<s_full_response, s_pc>>
          ELSE UNCHANGED <<s_out, s_full_response, s_pc>>
    /\ UNCHANGED <<memory_id, s_handler, s_payload, s_user_input,
                   s_session_manager, s_agent_created>>

\* The agent's stream raises: the except clause yields the error event.
AgentStreamRaises ==
    /\ StreamOnly
    /\ s_pc = "stream"
    /\ YieldsHandlerError
    /\ s_memory_touched' = (s_memory_touched \/ s_session_manager # NoValue)
    /\ UNCHANGED <<memory_id, s_handler, s_payload, s_user_input,
                   s_session_manager, s_agent_created, s_consumed,
                   s_full_response>>

\* The agent's stream ends.  The streaming generator yields the 'complete'
\* event with "".join(full_response); the entrypoint just ends.
AgentStreamEnds ==
    /\ StreamOnly
    /\ s_pc = "stream"
    /\ s_out' = IF s_handler = "streaming"
                   THEN Append(s_out, [type |-> "complete",
                                       data |-> PyStr(Join(s_full_response))])
                   ELSE s_out
    /\ s_pc' = "done"
    /\ s_memory_touched' = (s_memory_touched \/ s_session_manager # NoValue)
    /\ UNCHANGED <<memory_id, s_handler, s_payload, s_user_input,
                   s_session_manager, s_agent_created, s_consumed,
                   s_full_response>>

StreamNext ==
    \/ ValidatePayload
    \/ GetPrompt
    \/ CreateSessionManager
    \/ CreateAgent
    \/ HandleAgentEvent
    \/ AgentStreamRaises
    \/ AgentStreamEnds

(***************************************************************************)
(* main of deploy_spa_multi_agent_system_v8.py                             *)
(***************************************************************************)

\* max_attempts = 60
max_attempts == 60

\* The statuses on which the monitoring loop gives up.
FailedStatuses == {"CREATE_FAILED", "DELETE_FAILED", "UPDATE_FAILED", "FAILED"}

\* What status_response.endpoint.get('status', 'UNKNOWN') can be.
EndpointStatuses == {"CREATING", "UPDATING", "READY", "UNKNOWN"} \cup FailedStatuses

\* The ids the memory service hands out.
MemoryIds == {"mem-1", "mem-2"}

\* The command lines of the model: --cognito-client-id is required,
\* --gateway-cognito-client-id is optional.
ArgsSet ==
    [cognito_client_id : {"client-A", "client-B"},
     gateway_cognito_client_id : {NoValue, "client-G"}]

\* The steps of main, in program order.
AllSteps == <<"agent_file", "sts", "verify_s3", "role", "ci_bucket", "memory",
              "requirements", "update_config", "configure", "launch",
              "monitor", "save">>

DeployIdle ==
    /\ memories = {}
    /\ s3_ci_bucket = "absent"
    /\ d_args = [cognito_client_id |-> "client-A",
                 gateway_cognito_client_id |-> NoValue]
    /\ d_memories_before = {}
    /\ d_pc = "idle"
    /\ d_steps = <<>>
    /\ d_failed = NoValue
    /\ d_s3_calls = <<>>
    /\ d_create_calls = 0
    /\ d_created_id = NoValue
    /\ d_spa_memory_id = NoValue
    /\ d_memory_names = <<>>
    /\ d_config_file = PyNone
    /\ d_authorizer = PyNone
    /\ d_launch_called = FALSE
    /\ d_status = NoValue
    /\ d_attempt = 0
    /\ d_polls = {}
    /\ d_reported = FALSE
    /\ d_deploy_file = PyNone

\* main() starts, in an account that may hold a memory and the code
\* interpreter bucket of an earlier deployment.
DeployInit ==
    /\ memories \in {{}, {"mem-1"}}
    /\ s3_ci_bucket \in {"absent", "present"}
    /\ d_args \in ArgsSet
    /\ d_memories_before = memories
    /\ d_pc = "agent_file"
    /\ d_steps = <<>>
    /\ d_failed = NoValue
    /\ d_s3_calls = <<>>
    /\ d_create_calls = 0
    /\ d_created_id = NoValue
    /\ d_spa_memory_id = NoValue
    /\ d_memory_names = <<>>
    /\ d_config_file = PyNone
    /\ d_authorizer = PyNone
    /\ d_launch_called = FALSE
    /\ d_status = NoValue
    /\ d_attempt = 0
    /\ d_polls = {}
    /\ d_reported = FALSE
    /\ d_deploy_file = PyNone

DeployOnly ==
    UNCHANGED <<athenaVars, gatewayVars, crawlerVars, extractVars,
                streamVars, bucketVars, tokenVars, mcpVars, setupVars, toolVars,
                requestVars>>

\* A step succeeded and main goes on to `next`.
Succeeds(step, next) ==
    /\ d_steps' = Append(d_steps, step)
    /\ d_pc' = next
    /\ UNCHANGED d_failed

\* A step failed and main goes on to `next` ("end": it returns; "crashed":
\* the exception leaves main).
Fails(step, next) ==
    /\ d_failed' = step
    /\ d_pc' = next
    /\ UNCHANGED d_steps

\* if not os.path.exists(original_agent_file): return
CheckAgentFile ==
    /\ DeployOnly
    /\ d_pc = "agent_file"
    /\ \E exists \in BOOLEAN :
          IF exists THEN Succeeds("agent_file", "sts") ELSE Fails("agent_file", "end")
    /\ UNCHANGED <<memories, s3_ci_bucket, d_args, d_memories_before,
                   d_s3_calls, d_create_calls, d_created_id, d_spa_memory_id,
                   d_memory_names, d_config_file, d_authorizer, d_launch_called,
                   d_status, d_attempt, d_polls, d_reported, d_deploy_file>>

\* account_id = boto3.client('sts').get_caller_identity()['Account']
GetCallerIdentity ==
    /\ DeployOnly
    /\ d_pc = "sts"
    /\ \E ok \in BOOLEAN :
          IF ok THEN Succeeds("sts", "verify_s3") ELSE Fails("sts", "end")
    /\ UNCHANGED <<memories, s3_ci_bucket, d_args, d_memories_before,
                   d_s3_calls, d_create_calls, d_created_id, d_spa_memory_id,
                   d_memory_names, d_config_file, d_authorizer, d_launch_called,
                   d_status, d_attempt, d_polls, d_reported, d_deploy_file>>

\* if not verify_s3_bucket(...): return
VerifyS3Bucket ==
    /\ DeployOnly
    /\ d_pc = "verify_s3"
    /\ \E accessible \in BOOLEAN :
          IF accessible THEN Succeeds("verify_s3", "role")
                        ELSE Fails("verify_s3", "end")
    /\ UNCHANGED <<memories, s3_ci_bucket, d_args, d_memories_before,
                   d_s3_calls, d_create_calls, d_created_id, d_spa_memory_id,
                   d_memory_names, d_config_file, d_authorizer, d_launch_called,
                   d_status, d_attempt, d_polls, d_reported, d_deploy_file>>

\* if not role_arn: return
GoesOnWithoutRole(role_arn) == "ci_bucket"

AfterRole(role_arn) == IF role_arn = NoValue THEN "end" ELSE "ci_bucket"

\* role_arn = create_spa_multi_agent_execution_role(...): the ARN, or None
\* when anything in it raised.
CreateExecutionRole ==
    /\ DeployOnly
    /\ d_pc = "role"
    /\ \E role_arn \in {NoValue, "arn:aws:iam::role/spa_multi_agent_system_execution_role"} :
          IF role_arn # NoValue THEN Succeeds("role", AfterRole(role_arn))
                                ELSE Fails("role", AfterRole(role_arn))
    /\ UNCHANGED <<memories, s3_ci_bucket, d_args, d_memories_before,
                   d_s3_calls, d_create_calls, d_created_id, d_spa_memory_id,
                   d_memory_names, d_config_file, d_authorizer, d_launch_called,
                   d_status, d_attempt, d_polls, d_reported, d_deploy_file>>

\* create_code_interpreter_bucket: head_bucket, and when that raises,
\* create_bucket and put_bucket_cors; an error of these two is raised again
\* and main returns.
CreateCodeInterpreterBucket ==
    /\ DeployOnly
    /\ d_pc = "ci_bucket"
    /\ \E head_ok \in BOOLEAN, create_ok \in BOOLEAN, cors_ok \in BOOLEAN :
          /\ head_ok => s3_ci_bucket = "present"
          /\ IF head_ok
                THEN /\ d_s3_calls' = <<"head_bucket">>
                     /\ UNCHANGED s3_ci_bucket
                     /\ Succeeds("ci_bucket", "memory")
             ELSE IF ~create_ok
                THEN /\ d_s3_calls' = <<"head_bucket", "create_bucket">>
                     /\ UNCHANGED s3_ci_bucket
                     /\ Fails("ci_bucket", "end")
             ELSE /\ d_s3_calls' = <<"head_bucket", "create_bucket", "put_bucket_cors">>
                  /\ s3_ci_bucket' = "present"
                  /\ IF cors_ok THEN Succeeds("ci_bucket", "memory")
                                ELSE Fails("ci_bucket", "end")
    /\ UNCHANGED <<memories, d_args, d_memories_before, d_create_calls,
                   d_created_id, d_spa_memory_id, d_memory_names, d_config_file,
                   d_authorizer, d_launch_called, d_status, d_attempt, d_polls,
                   d_reported, d_deploy_file>>

\* A create_new_spa_memory that looks for a memory to reuse first.
GetOrCreateSpaMemory(existing, fresh) ==
    IF existing # {}
       THEN [create_calls |-> 0, memory_result_id |-> NoValue,
             new_memory_id |-> CHOOSE m \in existing : TRUE]
       ELSE [create_calls |-> 1, memory_result_id |-> fresh, new_memory_id |-> fresh]

\* create_new_spa_memory: one create_memory_and_wait call, whatever exists;
\* new_memory_id = memory_result['id'].  `fresh` is the id the service
\* gives the new memory.
CreateNewSpaMemory(existing, fresh) ==
    [create_calls |-> 1, memory_result_id |-> fresh, new_memory_id |-> fresh]

\* Step 4: spa_memory_id = create_new_spa_memory(...), which raises when
\* create_memory_and_wait or get_memory does (the memory may exist by then);
\* spa_memory_name is built from a second reading of the clock, `delay`
\* seconds after the one the memory was named with.
CreateMemory ==
    /\ DeployOnly
    /\ d_pc = "memory"
    /\ \E fresh \in MemoryIds \ memories, create_ok \in BOOLEAN,
          created \in BOOLEAN, get_ok \in BOOLEAN, delay \in {0, 10} :
          LET r == CreateNewSpaMemory(memories, fresh) IN
          /\ create_ok => created
          /\ d_create_calls' = d_create_calls + r.create_calls
          /\ memories' = IF created /\ r.memory_result_id # NoValue
                            THEN memories \cup {r.memory_result_id} ELSE memories
          /\ IF create_ok /\ get_ok
                THEN /\ d_created_id' = r.memory_result_id
                     /\ d_spa_memory_id' = r.new_memory_id
                     /\ d_memory_names' = <<[prefix |-> "SPA_MultiAgent", timestamp |-> 0],
                                            [prefix |-> "SPA_MultiAgent", timestamp |-> delay]>>
                     /\ Succeeds("memory", "requirements")
                ELSE /\ d_created_id' = IF create_ok THEN r.memory_result_id ELSE NoValue
                     /\ UNCHANGED <<d_spa_memory_id, d_memory_names>>
                     /\ Fails("memory", "end")
    /\ UNCHANGED <<s3_ci_bucket, d_args, d_memories_before, d_s3_calls,
                   d_config_file, d_authorizer, d_launch_called, d_status,
                   d_attempt, d_polls, d_reported, d_deploy_file>>

\* requirements_file = create_requirements_file(): a file error leaves main.
CreateRequirements ==
    /\ DeployOnly
    /\ d_pc = "requirements"
    /\ \E ok \in BOOLEAN :
          IF ok THEN Succeeds("requirements", "update_config")
                ELSE Fails("requirements", "crashed")
    /\ UNCHANGED <<memories, s3_ci_bucket, d_args, d_memories_before,
                   d_s3_calls, d_create_calls, d_created_id, d_spa_memory_id,
                   d_memory_names, d_config_file, d_authorizer, d_launch_called,
                   d_status, d_attempt, d_polls, d_reported, d_deploy_file>>

\* The configuration lines of spa_multi_agent_system_v8.py that the memory
\* and bucket settings are read by, as they stand in the agent file.
AgentFile ==
    [MEMORY_EXPIRY_DAYS |-> "int(os.getenv('MEMORY_EXPIRY_DAYS', '30'))",
     SPA_MEMORY_ID |-> "os.getenv('SPA_MEMORY_ID')",
     SPA_MEMORY_NAME |-> "os.getenv('SPA_MEMORY_NAME')",
     CODE_INTERPRETER_BUCKET |->
         "os.getenv('CODE_INTERPRETER_BUCKET', 'spa-code-interpreter-output')"]

\* replacements: the text replaced, and the key of config it is replaced by.
Replacements ==
    [t \in {"os.getenv('SPA_MEMORY_ID')", "os.getenv('SPA_MEMORY_NAME')",
            "os.getenv('CODE_INTERPRETER_BUCKET', 'spa-code-interpreter-output')"} |->
        IF t = "os.getenv('SPA_MEMORY_ID')" THEN "spa_memory_id"
        ELSE IF t = "os.getenv('SPA_MEMORY_NAME')" THEN "spa_memory_name"
        ELSE "code_interpreter_bucket"]

\* config, as main builds it.
Config ==
    [spa_memory_id |-> d_spa_memory_id,
     spa_memory_name |-> d_memory_names[2],
     code_interpreter_bucket |-> "spa-code-interpreter-<account_id>",
     gateway_cognito_client_id |->
         IF d_args.gateway_cognito_client_id = NoValue
            THEN "" ELSE d_args.gateway_cognito_client_id]

\* update_agent_config: every text of `replacements` found in the file is
\* replaced by the quoted config value; the rest of the file is kept.
UpdateAgentConfig(file, config) ==
    [v \in DOMAIN file |->
        IF file[v] \in DOMAIN Replacements
           THEN [literal |-> config[Replacements[file[v]]]]
           ELSE [code |-> file[v]]]

\* Step 6: the configured agent file is written.
UpdateConfig ==
    /\ DeployOnly
    /\ d_pc = "update_config"
    /\ \E ok \in BOOLEAN :
          IF ok THEN /\ d_config_file' = UpdateAgentConfig(AgentFile, Config)
                     /\ Succeeds("update_config", "configure")
                ELSE /\ UNCHANGED d_config_file
                     /\ Fails("update_config", "crashed")
    /\ UNCHANGED <<memories, s3_ci_bucket, d_args, d_memories_before,
                   d_s3_calls, d_create_calls, d_created_id, d_spa_memory_id,
                   d_memory_names, d_authorizer, d_launch_called, d_status,
                   d_attempt, d_polls, d_reported, d_deploy_file>>

\* authorizer_configuration of agentcore_runtime.configure.
AuthorizerConfiguration(args) ==
    [customJWTAuthorizer |->
        [discoveryUrl |-> "https://cognito-idp.<region>.amazonaws.com/<pool>/.well-known/openid-configuration",
         allowedClients |-> <<args.cognito_client_id>>]]

\* Step 7: Runtime().configure(...); on an error, clean up and return.
ConfigureRuntime ==
    /\ DeployOnly
    /\ d_pc = "configure"
    /\ d_authorizer' = AuthorizerConfiguration(d_args)
    /\ \E ok \in BOOLEAN :
          IF ok THEN Succeeds("configure", "launch") ELSE Fails("configure", "end")
    /\ UNCHANGED <<memories, s3_ci_bucket, d_args, d_memories_before,
                   d_s3_calls, d_create_calls, d_created_id, d_spa_memory_id,
                   d_memory_names, d_config_file, d_launch_called, d_status,
                   d_attempt, d_polls, d_reported, d_deploy_file>>

\* Step 8: agentcore_runtime.launch(...); on an error, clean up and return.
\* Then status = "CREATING", attempt = 0.
LaunchRuntime ==
    /\ DeployOnly
    /\ d_pc = "launch"
    /\ d_launch_called' = TRUE
    /\ \E ok \in BOOLEAN :
          IF ok THEN /\ Succeeds("launch", "monitor")
                     /\ d_status' = "CREATING"
                ELSE /\ Fails("launch", "end")
                     /\ UNCHANGED d_status
    /\ UNCHANGED <<memories, s3_ci_bucket, d_args, d_memories_before,
                   d_s3_calls, d_create_calls, d_created_id, d_spa_memory_id,
                   d_memory_names, d_config_file, d_authorizer, d_attempt,
                   d_polls, d_reported, d_deploy_file>>

\* One iteration of the monitoring loop in which agentcore_runtime.status()
\* answers: READY breaks, a failed status cleans up and returns, any other
\* status counts an attempt.
PollStatus ==
    /\ DeployOnly
    /\ d_pc = "monitor"
    /\ d_attempt < max_attempts
    /\ \E status \in EndpointStatuses :
          /\ d_status' = status
          /\ IF status = "READY"
                THEN /\ d_polls' = d_polls \cup {"ready"}
                     /\ d_reported' = TRUE
                     /\ d_pc' = "after_monitor"
                     /\ UNCHANGED <<d_attempt, d_failed>>
             ELSE IF status \in FailedStatuses
                THEN /\ d_polls' = d_polls \cup {"failed"}
                     /\ d_failed' = "monitor"
                     /\ d_pc' = "end"
                     /\ UNCHANGED <<d_attempt, d_reported>>
             ELSE /\ d_attempt' = d_attempt + 1
                  /\ UNCHANGED <<d_pc, d_polls, d_reported, d_failed>>
    /\ UNCHANGED <<memories, s3_ci_bucket, d_args, d_memories_before, d_steps,
                   d_s3_calls, d_create_calls, d_created_id, d_spa_memory_id,
                   d_memory_names, d_config_file, d_authorizer, d_launch_called,
                   d_deploy_file>>

\* An iteration in which the status call raises: the attempt is counted and
\* status keeps its value.
PollStatusRaises ==
    /\ DeployOnly
    /\ d_pc = "monitor"
    /\ d_attempt < max_attempts
    /\ d_attempt' = d_attempt + 1
    /\ d_polls' = d_polls \cup {"raised"}
    /\ UNCHANGED <<memories, s3_ci_bucket, d_args, d_memories_before, d_pc,
                   d_steps, d_failed, d_s3_calls, d_create_calls, d_created_id,
                   d_spa_memory_id, d_memory_names, d_config_file, d_authorizer,
                   d_launch_called, d_status, d_reported, d_deploy_file>>

\* The loop condition attempt < max_attempts fails.
MonitorExhausted ==
    /\ DeployOnly
    /\ d_pc = "monitor"
    /\ ~(d_attempt < max_attempts)
    /\ d_pc' = "after_monitor"
    /\ UNCHANGED <<memories, s3_ci_bucket, d_args, d_memories_before, d_steps,
                   d_failed, d_s3_calls, d_create_calls, d_created_id,
                   d_spa_memory_id, d_memory_names, d_config_file, d_authorizer,
                   d_launch_called, d_status, d_attempt, d_polls, d_reported,
                   d_deploy_file>>

\* The check after the loop left out.
SavesWhateverStatus(status) == "save"

\* if status != 'READY': clean up and return
AfterMonitor(status) == IF status # "READY" THEN "end" ELSE "save"

\* The check after the loop.
CheckFinalStatus ==
    /\ DeployOnly
    /\ d_pc = "after_monitor"
    /\ IF AfterMonitor(d_status) = "end"
          THEN Fails("monitor", "end")
          ELSE Succeeds("monitor", AfterMonitor(d_status))
    /\ UNCHANGED <<memories, s3_ci_bucket, d_args, d_memories_before,
                   d_s3_calls, d_create_calls, d_created_id, d_spa_memory_id,
                   d_memory_names, d_config_file, d_authorizer, d_launch_called,
                   d_status, d_attempt, d_polls, d_reported, d_deploy_file>>

\* deployment_info
DeploymentInfo ==
    [inbound_auth |-> [type |-> "Cognito JWT",
                       client_id |-> d_args.cognito_client_id],
     spa_memory_id |-> d_spa_memory_id,
     configuration |-> Config]

\* Step 9: the deployment file is written and the success message printed.
SaveDeploymentInfo ==
    /\ DeployOnly
    /\ d_pc = "save"
    /\ d_deploy_file' = DeploymentInfo
    /\ d_reported' = TRUE
    /\ Succeeds("save", "done")
    /\ UNCHANGED <<memories, s3_ci_bucket, d_args, d_memories_before,
                   d_s3_calls, d_create_calls, d_created_id, d_spa_memory_id,
                   d_memory_names, d_config_file, d_authorizer, d_launch_called,
                   d_status, d_attempt, d_polls>>

DeployNext ==
    \/ CheckAgentFile
    \/ GetCallerIdentity
    \/ VerifyS3Bucket
    \/ CreateExecutionRole
    \/ CreateCodeInterpreterBucket
    \/ CreateMemory
    \/ CreateRequirements
    \/ UpdateConfig
    \/ ConfigureRuntime
    \/ LaunchRuntime
    \/ PollStatus
    \/ PollStatusRaises
    \/ MonitorExhausted
    \/ CheckFinalStatus
    \/ SaveDeploymentInfo

(***************************************************************************)
(* create_code_interpreter_bucket, called again and again                  *)
(***************************************************************************)

\* How many calls a behaviour makes.
MaxBucketCalls == 3

Accounts == {"111111111111", "222222222222"}

Regions == {"us-east-1", "eu-west-1"}

\* No bucket.
NoBucket == [exists |-> FALSE, cors |-> FALSE]

\* bucket_name = f'spa-code-interpreter-{account_id}'
BucketName(account_id) == <<"spa-code-interpreter-", account_id>>

BucketIdle ==
    /\ s3_buckets = [a \in Accounts |-> NoBucket]
    /\ b_n = 0
    /\ b_args = <<>>
    /\ b_calls = <<>>
    /\ b_result = <<>>
    /\ b_before = NoBucket
    /\ b_returned = {}

\* Before the first call: an account may hold the bucket of an earlier
\* deployment, with the CORS rule put on it.
BucketInit ==
    /\ s3_buckets \in [Accounts -> {NoBucket, [exists |-> TRUE, cors |-> TRUE]}]
    /\ b_n = 0
    /\ b_args = <<>>
    /\ b_calls = <<>>
    /\ b_result = <<>>
    /\ b_before = NoBucket
    /\ b_returned = {}

BucketOnly ==
    UNCHANGED <<athenaVars, gatewayVars, crawlerVars, extractVars,
                streamVars, deployVars, tokenVars, mcpVars, setupVars, toolVars,
                requestVars>>

\* The function, given what S3 holds of the bucket and how each S3 call it
\* makes ends: head_bucket returning makes it return at once; any exception
\* of head_bucket is passed over, create_bucket and put_bucket_cors are
\* called, and an exception of either is raised again.
CodeInterpreterBucket(account_id, bucket, head_ok, create_ok, cors_ok) ==
    IF head_ok
       THEN [calls |-> <<"head_bucket">>, bucket |-> bucket,
             result |-> BucketName(account_id)]
    ELSE IF ~create_ok
       THEN [calls |-> <<"head_bucket", "create_bucket">>, bucket |-> bucket,
             result |-> <<"raised">>]
    ELSE IF ~cors_ok
       THEN [calls |-> <<"head_bucket", "create_bucket", "put_bucket_cors">>,
             bucket |-> [exists |-> TRUE, cors |-> bucket.cors],
             result |-> <<"raised">>]
    ELSE [calls |-> <<"head_bucket", "create_bucket", "put_bucket_cors">>,
          bucket |-> [exists |-> TRUE, cors |-> TRUE],
          result |-> BucketName(account_id)]

\* One call of create_code_interpreter_bucket(account_id, region).  S3
\* answers head_bucket only for a bucket that exists, and may fail any call.
CallCreateCodeInterpreterBucket ==
    /\ BucketOnly
    /\ b_n < MaxBucketCalls
    /\ \E account_id \in Accounts, region \in Regions,
          head_ok \in BOOLEAN, create_ok \in BOOLEAN, cors_ok \in BOOLEAN :
          LET bucket == s3_buckets[account_id]
              r == CodeInterpreterBucket(account_id, bucket, head_ok, create_ok, cors_ok)
          IN  /\ head_ok => bucket.exists
              /\ s3_buckets' = [s3_buckets EXCEPT ![account_id] = r.bucket]
              /\ b_n' = b_n + 1
              /\ b_args' = <<account_id, region>>
              /\ b_calls' = r.calls
              /\ b_result' = r.result
              /\ b_before' = bucket
              /\ b_returned' =
                    IF b_n > 0 /\ b_result = BucketName(b_args[1])
                       THEN b_returned \cup {b_args} ELSE b_returned

BucketNext ==
    CallCreateCodeInterpreterBucket

(***************************************************************************)
(* get_gateway_access_token                                                *)
(***************************************************************************)

\* How far the clock runs, in seconds.
MaxClock == 7000

\* How many calls a behaviour makes.
MaxTokenCalls == 4

\* The seconds that may pass between two calls.
ClockSteps == {1000, 1500}

\* A Python number.
PyNum(n) == [num |-> n]

\* The n-th access token the endpoint issues: a non-empty string, different
\* from those issued before.
AccessToken(n) == [token |-> n]

\* _token_expiry = time.time() + (50 * 60)
TokenExpiry(now) == now + (50 * 60)

\* The cache is served up to and including the moment of expiry.
FreshUntilExpiryIncluded(cache, expiry, now) ==
    cache # PyNone /\ expiry # PyNone /\ now <= expiry.num

\* if _access_token_cache and _token_expiry and time.time() < _token_expiry
CacheIsFresh(cache, expiry, now) ==
    cache # PyNone /\ expiry # PyNone /\ now < expiry.num

TokenIdle ==
    /\ clock = 0
    /\ oauth_configured = FALSE
    /\ access_token_cache = PyNone
    /\ token_expiry = PyNone
    /\ issued = 0
    /\ t_n = 0
    /\ t_called_at = 0
    /\ t_cache_before = PyNone
    /\ t_expiry_before = PyNone
    /\ t_requests = 0
    /\ t_response = PyNone
    /\ t_return = PyNone

\* The module has just been loaded: the caches are None.
TokenInit ==
    /\ clock = 0
    /\ oauth_configured \in BOOLEAN
    /\ access_token_cache = PyNone
    /\ token_expiry = PyNone
    /\ issued = 0
    /\ t_n = 0
    /\ t_called_at = 0
    /\ t_cache_before = PyNone
    /\ t_expiry_before = PyNone
    /\ t_requests = 0
    /\ t_response = PyNone
    /\ t_return = PyNone

TokenOnly ==
    UNCHANGED <<athenaVars, gatewayVars, crawlerVars, extractVars,
                streamVars, deployVars, bucketVars, mcpVars, setupVars, toolVars,
                requestVars>>

\* Time passes between calls.
ClockAdvances ==
    /\ TokenOnly
    /\ \E dt \in ClockSteps :
          /\ clock + dt <= MaxClock
          /\ clock' = clock + dt
    /\ UNCHANGED <<oauth_configured, access_token_cache, token_expiry, issued,
                   t_n, t_called_at, t_cache_before, t_expiry_before,
                   t_requests, t_response, t_return>>

\* What every call records of itself.
TokenCallBegins ==
    /\ t_n < MaxTokenCalls
    /\ t_n' = t_n + 1
    /\ t_called_at' = clock
    /\ t_cache_before' = access_token_cache
    /\ t_expiry_before' = token_expiry
    /\ UNCHANGED <<clock, oauth_configured>>

\* The call that finds the cache fresh: return _access_token_cache.
ReturnCachedToken ==
    /\ TokenOnly
    /\ TokenCallBegins
    /\ CacheIsFresh(access_token_cache, token_expiry, clock)
    /\ t_requests' = 0
    /\ t_response' = PyNone
    /\ t_return' = access_token_cache
    /\ UNCHANGED <<access_token_cache, token_expiry, issued>>

\* The cache is not fresh and the OAuth2 settings are incomplete: return None.
ReturnNotConfigured ==
    /\ TokenOnly
    /\ TokenCallBegins
    /\ ~CacheIsFresh(access_token_cache, token_expiry, clock)
    /\ ~oauth_configured
    /\ t_requests' = 0
    /\ t_response' = PyNone
    /\ t_return' = PyNone
    /\ UNCHANGED <<access_token_cache, token_expiry, issued>>

\* The cache is not fresh and the token is requested: the response's
\* access_token is cached with its expiry and returned.
FetchToken ==
    /\ TokenOnly
    /\ TokenCallBegins
    /\ ~CacheIsFresh(access_token_cache, token_expiry, clock)
    /\ oauth_configured
    /\ issued' = issued + 1
    /\ t_requests' = 1
    /\ t_response' = AccessToken(issued + 1)
    /\ access_token_cache' = AccessToken(issued + 1)
    /\ token_expiry' = PyNum(TokenExpiry(clock))
    /\ t_return' = AccessToken(issued + 1)

\* ... or requests.post, raise_for_status, response.json() or the key
\* look-up raises: the caches keep their values and None is returned.
FetchTokenRaises ==
    /\ TokenOnly
    /\ TokenCallBegins
    /\ ~CacheIsFresh(access_token_cache, token_expiry, clock)
    /\ oauth_configured
    /\ t_requests' = 1
    /\ t_response' = PyNone
    /\ t_return' = PyNone
    /\ UNCHANGED <<access_token_cache, token_expiry, issued>>

TokenNext ==
    \/ ClockAdvances
    \/ ReturnCachedToken
    \/ ReturnNotConfigured
    \/ FetchToken
    \/ FetchTokenRaises

(***************************************************************************)
(* get_mcp_tools: called by the module when it is loaded (line 633), and   *)
(* by whoever calls it afterwards                                          *)
(***************************************************************************)

\* How many calls a behaviour makes.
MaxMcpCalls == 3

\* The pages list_tools_sync may take to list the Gateway's tools.
MaxPages == 2

\* The tools the Gateway may offer.
GatewayTools == {"sap_odata", "rfq_create"}

\* A Python list.
PyList(l) == [list |-> l]

\* One page of list_tools_sync: no tool or one.
ToolPages == {<<>>} \cup {<<t>> : t \in GatewayTools}

\* The listings: one to MaxPages pages, the last of which has no
\* pagination_token.
Listings == UNION {[1..n -> ToolPages] : n \in 1..MaxPages}

\* tools.extend(tmp_tools), page after page.
RECURSIVE Extend(_, _)
Extend(pages, n) ==
    IF n = 0 THEN <<>> ELSE Extend(pages, n - 1) \o pages[n]

\* The cache counts only when it holds a tool.
CacheHoldsTools(cache) == cache # PyNone /\ cache.list # <<>>

\* if _mcp_tools_cache is not None
CacheIsSet(cache) == cache # PyNone

McpIdle ==
    /\ gateway_url_set = FALSE
    /\ mcp_tools_cache = PyNone
    /\ mcp_client = 0
    /\ mcp_tools = PyNone
    /\ m_n = 0
    /\ m_cache_before = PyNone
    /\ m_token_requests = 0
    /\ m_clients_opened = 0
    /\ m_list_calls = 0
    /\ m_return = <<>>

\* The module is being loaded: the globals of lines 49-50 are None and
\* line 633 has not run yet.
McpInit ==
    /\ gateway_url_set \in BOOLEAN
    /\ mcp_tools_cache = PyNone
    /\ mcp_client = 0
    /\ mcp_tools = PyNone
    /\ m_n = 0
    /\ m_cache_before = PyNone
    /\ m_token_requests = 0
    /\ m_clients_opened = 0
    /\ m_list_calls = 0
    /\ m_return = <<>>

McpOnly ==
    UNCHANGED <<athenaVars, gatewayVars, crawlerVars, extractVars,
                streamVars, deployVars, bucketVars, tokenVars, setupVars, toolVars,
                requestVars>>

\* What every call records of itself.  The first call is the module's:
\* mcp_tools = get_mcp_tools().
McpCallReturns(tools) ==
    /\ m_n < MaxMcpCalls
    /\ m_n' = m_n + 1
    /\ m_cache_before' = mcp_tools_cache
    /\ m_return' = tools
    /\ mcp_tools' = IF m_n = 0 THEN PyList(tools) ELSE mcp_tools
    /\ UNCHANGED gateway_url_set

\* return _mcp_tools_cache
ReturnCachedTools ==
    /\ McpOnly
    /\ CacheIsSet(mcp_tools_cache)
    /\ McpCallReturns(mcp_tools_cache.list)
    /\ m_token_requests' = 0
    /\ m_clients_opened' = 0
    /\ m_list_calls' = 0
    /\ UNCHANGED <<mcp_tools_cache, mcp_client>>

\* if not GATEWAY_URL: return []
ReturnNoGatewayUrl ==
    /\ McpOnly
    /\ ~CacheIsSet(mcp_tools_cache)
    /\ ~gateway_url_set
    /\ McpCallReturns(<<>>)
    /\ m_token_requests' = 0
    /\ m_clients_opened' = 0
    /\ m_list_calls' = 0
    /\ UNCHANGED <<mcp_tools_cache, mcp_client>>

\* get_gateway_access_token() returned None: return []
ReturnNoAccessToken ==
    /\ McpOnly
    /\ ~CacheIsSet(mcp_tools_cache)
    /\ gateway_url_set
    /\ McpCallReturns(<<>>)
    /\ m_token_requests' = 1
    /\ m_clients_opened' = 0
    /\ m_list_calls' = 0
    /\ UNCHANGED <<mcp_tools_cache, mcp_client>>

\* The token is there, the client is opened and every page is listed:
\* _mcp_tools_cache = tools, return tools.
LoadTools ==
    /\ McpOnly
    /\ ~CacheIsSet(mcp_tools_cache)
    /\ gateway_url_set
    /\ \E pages \in Listings :
          /\ McpCallReturns(Extend(pages, Len(pages)))
          /\ mcp_tools_cache' = PyList(Extend(pages, Len(pages)))
          /\ m_list_calls' = Len(pages)
    /\ m_token_requests' = 1
    /\ m_clients_opened' = 1
    /\ mcp_client' = mcp_client + 1

\* The token is there and MCPClient(...), __enter__ or one of the
\* list_tools_sync calls raises: the cache stays None, return [].
LoadToolsRaises ==
    /\ McpOnly
    /\ ~CacheIsSet(mcp_tools_cache)
    /\ gateway_url_set
    /\ McpCallReturns(<<>>)
    /\ m_token_requests' = 1
    /\ \E constructed \in BOOLEAN, listed \in 0..MaxPages :
          /\ ~constructed => listed = 0
          /\ m_clients_opened' = IF constructed THEN 1 ELSE 0
          /\ mcp_client' = IF constructed THEN mcp_client + 1 ELSE mcp_client
          /\ m_list_calls' = listed
    /\ UNCHANGED mcp_tools_cache

McpNext ==
    \/ ReturnCachedTools
    \/ ReturnNoGatewayUrl
    \/ ReturnNoAccessToken
    \/ LoadTools
    \/ LoadToolsRaises

(***************************************************************************)
(* Memory setup, run once when the agent module is loaded.  It writes the  *)
(* module global memory_id that the request handlers read.                 *)
(***************************************************************************)

\* How many memories list_memories may return.
MaxListed == 2

\* The variables of a request, which the setup does not touch.
handlerVars == <<s_handler, s_payload, s_pc, s_user_input, s_session_manager,
                 s_memory_touched, s_agent_created, s_consumed,
                 s_full_response, s_out>>

\* The configured values: os.getenv gives None for an unset variable, the
\* deployment writes a (possibly empty) string.
ConfiguredIds == {NoValue, "", "mem-1"}

ConfiguredNames == {NoValue, "", "SPA_MultiAgent_PROD_1"}

\* What the memory service may list: name and id of each memory.
ListedMemories ==
    [name : {"SPA_MultiAgent_PROD_1", "SPA_MultiAgent_DEV_2"},
     id : {"mem-1", "mem-2"}]

\* Python truth of a string or None.
StrTruthy(s) == s # NoValue /\ s # ""

\* The last listed memory of that name, when one is wanted.
LastIdNamed(listing, name) ==
    IF \E i \in 1..Len(listing) : listing[i].name = name
       THEN listing[CHOOSE i \in 1..Len(listing) :
                       /\ listing[i].name = name
                       /\ \A j \in (i + 1)..Len(listing) : listing[j].name # name].id
       ELSE NoValue

\* for memory in memories: if memory.get('name') == DEPLOYED_MEMORY_NAME:
\*     memory_id = memory.get('id'); break
FirstIdNamed(listing, name) ==
    IF \E i \in 1..Len(listing) : listing[i].name = name
       THEN listing[CHOOSE i \in 1..Len(listing) :
                       /\ listing[i].name = name
                       /\ \A j \in 1..(i - 1) : listing[j].name # name].id
       ELSE NoValue

SetupIdle ==
    /\ DEPLOYED_MEMORY_ID = NoValue
    /\ DEPLOYED_MEMORY_NAME = NoValue
    /\ ms_pc = "idle"
    /\ ms_verified = {}
    /\ ms_list_calls = 0
    /\ ms_listed = <<>>
    /\ ms_session_manager = PyNone

\* client = None, memory_id = None, and the two configured values.
SetupInit ==
    /\ DEPLOYED_MEMORY_ID \in ConfiguredIds
    /\ DEPLOYED_MEMORY_NAME \in ConfiguredNames
    /\ ms_pc = "client"
    /\ ms_verified = {}
    /\ ms_list_calls = 0
    /\ ms_listed = <<>>
    /\ ms_session_manager = PyNone

SetupOnly ==
    UNCHANGED <<athenaVars, gatewayVars, crawlerVars, extractVars,
                handlerVars, deployVars, bucketVars, tokenVars, mcpVars, toolVars,
                requestVars>>

\* client = MemoryClient(region_name=AWS_REGION); when it raises, the outer
\* handler sets client = None, memory_id = None.
CreateMemoryClient ==
    /\ SetupOnly
    /\ ms_pc = "client"
    /\ \E ok \in BOOLEAN :
          IF ok THEN /\ ms_pc' = "by_id"
                     /\ UNCHANGED memory_id
                ELSE /\ ms_pc' = "done"
                     /\ memory_id' = NoValue
    /\ UNCHANGED <<DEPLOYED_MEMORY_ID, DEPLOYED_MEMORY_NAME, ms_verified,
                   ms_list_calls, ms_listed, ms_session_manager>>

\* Strategy 1: if DEPLOYED_MEMORY_ID, get_memory verifies it; when the call
\* raises, memory_id = None.
UseDeployedMemoryId ==
    /\ SetupOnly
    /\ ms_pc = "by_id"
    /\ ms_pc' = "by_name"
    /\ IF StrTruthy(DEPLOYED_MEMORY_ID)
          THEN \E ok \in BOOLEAN :
                  IF ok THEN /\ memory_id' = DEPLOYED_MEMORY_ID
                             /\ ms_verified' = ms_verified \cup {DEPLOYED_MEMORY_ID}
                        ELSE /\ memory_id' = NoValue
                             /\ UNCHANGED ms_verified
          ELSE UNCHANGED <<memory_id, ms_verified>>
    /\ UNCHANGED <<DEPLOYED_MEMORY_ID, DEPLOYED_MEMORY_NAME, ms_list_calls,
                   ms_listed, ms_session_manager>>

\* Strategy 2: if not memory_id and DEPLOYED_MEMORY_NAME, the memories are
\* listed and the id of the first one of that name is taken; when
\* list_memories raises, memory_id stays None.
SearchByMemoryName ==
    /\ SetupOnly
    /\ ms_pc = "by_name"
    /\ ms_pc' = "done"
    /\ IF ~StrTruthy(memory_id) /\ StrTruthy(DEPLOYED_MEMORY_NAME)
          THEN /\ ms_list_calls' = ms_list_calls + 1
               /\ \/ \E n \in 0..MaxListed : \E listing \in [1..n -> ListedMemories] :
                        /\ ms_listed' = listing
                        /\ memory_id' = FirstIdNamed(listing, DEPLOYED_MEMORY_NAME)
                  \/ UNCHANGED <<memory_id, ms_listed>>
          ELSE UNCHANGED <<memory_id, ms_list_calls, ms_listed>>
    /\ UNCHANGED <<DEPLOYED_MEMORY_ID, DEPLOYED_MEMORY_NAME, ms_verified,
                   ms_session_manager>>

\* A request handled after the setup: if memory_id, a session manager is
\* made for it (None when that raises); else it runs without memory.
RequestSessionManager ==
    /\ SetupOnly
    /\ ms_pc = "done"
    /\ ms_pc' = "serving"
    /\ IF StrTruthy(memory_id)
          THEN \E ok \in BOOLEAN :
                  ms_session_manager' =
                     IF ok THEN [memory_id |-> memory_id] ELSE PyNone
          ELSE ms_session_manager' = PyNone
    /\ UNCHANGED <<memory_id, DEPLOYED_MEMORY_ID, DEPLOYED_MEMORY_NAME,
                   ms_verified, ms_list_calls, ms_listed>>

SetupNext ==
    \/ CreateMemoryClient
    \/ UseDeployedMemoryId
    \/ SearchByMemoryName
    \/ RequestSessionManager

(***************************************************************************)
(* The tools of the agent.  A str is the sequence of the parts it was      *)
(* formatted from.  query_athena and check_vendor_compliance call          *)
(* get_query_results, whose steps are those modelled above.                *)
(***************************************************************************)

ToolNames ==
    {"lookup_schema", "query_athena", "get_financial_performance",
     "get_supplier_quality_metrics", "check_vendor_compliance",
     "validate_rfq_data", "execute_python"}

\* What the argument of each tool may be like.
ToolInputs(tool) ==
    IF tool = "check_vendor_compliance" THEN {"context", "no vendors", "vendors"}
    ELSE IF tool = "validate_rfq_data" THEN {"complete", "fields missing"}
    ELSE {"any"}

\* The first statement of each tool.
FirstPc(tool) ==
    IF tool = "lookup_schema" THEN "retrieve"
    ELSE IF tool = "query_athena" THEN "start_query"
    ELSE IF tool \in {"get_financial_performance", "get_supplier_quality_metrics"}
       THEN "query"
    ELSE IF tool = "check_vendor_compliance" THEN "parse"
    ELSE IF tool = "validate_rfq_data" THEN "validate"
    ELSE "presign"

\* The positions of each tool.
ToolPcs(tool) ==
    IF tool = "lookup_schema" THEN {"retrieve"}
    ELSE IF tool = "query_athena" THEN {"start_query", "get_results", "format"}
    ELSE IF tool \in {"get_financial_performance", "get_supplier_quality_metrics"}
       THEN {"query", "result"}
    ELSE IF tool = "check_vendor_compliance"
       THEN {"parse", "start_query", "get_results", "format"}
    ELSE IF tool = "validate_rfq_data" THEN {"validate"}
    ELSE {"presign", "invoke", "stream"}

\* query_athena with get_query_results called outside its try.
TryBlockWithoutResults(tool) ==
    IF tool = "query_athena" THEN {"start_query", "format"} ELSE ToolPcs(tool)

\* The statements of each tool that stand inside its try: all of them.
TryBlock(tool) == ToolPcs(tool)

\* What the except clause of each tool returns; str(e) is its last part.
ExceptMessage(tool) ==
    IF tool = "lookup_schema" THEN <<"Error accessing schema information: ", "str(e)">>
    ELSE IF tool = "query_athena" THEN <<"Error executing query: ", "str(e)">>
    ELSE IF tool = "get_financial_performance"
       THEN <<"Error retrieving financial performance data: ", "str(e)">>
    ELSE IF tool = "get_supplier_quality_metrics"
       THEN <<"Error retrieving supplier quality metrics: ", "str(e)">>
    ELSE IF tool = "check_vendor_compliance"
       THEN <<"Error retrieving compliance data: ", "str(e)">>
    ELSE IF tool = "validate_rfq_data" THEN <<"Error validating RFQ data: ", "str(e)">>
    ELSE <<"Error: ", "str(e)">>

\* result['error'] of the dict get_query_results returned.
QueryFailed(result) == <<"Query failed: ", result.reason>>

ToolsIdle ==
    /\ tl_tool = NoValue
    /\ tl_input = NoValue
    /\ tl_stack = <<>>
    /\ tl_exc = FALSE
    /\ tl_ret = PyNone
    /\ tl_aws_failed = FALSE
    /\ tl_result = PyNone

\* The agent calls one of the tools.
ToolsInit ==
    /\ tl_tool \in ToolNames
    /\ tl_input \in ToolInputs(tl_tool)
    /\ tl_stack = <<[tool |-> tl_tool, pc |-> FirstPc(tl_tool)]>>
    /\ tl_exc = FALSE
    /\ tl_ret = PyNone
    /\ tl_aws_failed = FALSE
    /\ tl_result = PyNone

ToolsOnly ==
    UNCHANGED <<gatewayVars, crawlerVars, extractVars, streamVars,
                deployVars, bucketVars, tokenVars, mcpVars, setupVars, requestVars>>

\* The innermost call.
Top == tl_stack[Len(tl_stack)]

\* The innermost call is `tool`, about to execute `pc`.
AtPc(tool, pc) ==
    /\ tl_stack # <<>>
    /\ ~tl_exc
    /\ Top.tool = tool
    /\ Top.pc = pc

\* The innermost call goes on to `pc`.
GoTo(pc) ==
    /\ tl_stack' = [tl_stack EXCEPT ![Len(tl_stack)].pc = pc]
    /\ UNCHANGED <<tl_exc, tl_ret, tl_result>>

\* return value: to the calling tool, or to the agent.
Returns(value) ==
    /\ tl_stack' = SubSeq(tl_stack, 1, Len(tl_stack) - 1)
    /\ IF Len(tl_stack) = 1
          THEN tl_result' = [returned |-> value] /\ UNCHANGED tl_ret
          ELSE tl_ret' = PyStr(value) /\ UNCHANGED tl_result

\* The statement raises.
Raises ==
    /\ tl_exc' = TRUE
    /\ UNCHANGED <<tl_stack, tl_ret, tl_result>>

\* get_query_results is not running.
NoAthenaCall == UNCHANGED athenaVars

\* lookup_schema: bedrock_kb.retrieve answers with documents, with none, or
\* raises.
LookupSchema ==
    /\ ToolsOnly
    /\ AtPc("lookup_schema", "retrieve")
    /\ NoAthenaCall
    /\ \/ /\ Returns(<<"text of the documents">>)
          /\ UNCHANGED <<tl_exc, tl_aws_failed>>
       \/ /\ Returns(<<"No schema information found for your query.">>)
          /\ UNCHANGED <<tl_exc, tl_aws_failed>>
       \/ /\ Raises
          /\ tl_aws_failed' = TRUE
    /\ UNCHANGED <<tl_tool, tl_input>>

\* check_vendor_compliance up to the query: a reference to the context and
\* an empty vendor list are answered at once.
ParseVendorNumbers ==
    /\ ToolsOnly
    /\ AtPc("check_vendor_compliance", "parse")
    /\ NoAthenaCall
    /\ IF tl_input = "context"
          THEN Returns(<<"I can see you're referring to previously mentioned vendors. ...">>)
                  /\ UNCHANGED tl_exc
       ELSE IF tl_input = "no vendors"
          THEN Returns(<<"Please provide vendor numbers to check compliance data.">>)
                  /\ UNCHANGED tl_exc
       ELSE GoTo("start_query")
    /\ UNCHANGED <<tl_tool, tl_input, tl_aws_failed>>

\* athena.start_query_execution, in query_athena and check_vendor_compliance.
StartQueryExecution ==
    /\ ToolsOnly
    /\ \E tool \in {"query_athena", "check_vendor_compliance"} :
          AtPc(tool, "start_query")
    /\ NoAthenaCall
    /\ \/ GoTo("get_results") /\ UNCHANGED tl_aws_failed
       \/ Raises /\ tl_aws_failed' = TRUE
    /\ UNCHANGED <<tl_tool, tl_input>>

\* result = get_query_results(execution_id): the call begins.
CallGetQueryResults ==
    /\ ToolsOnly
    /\ \E tool \in {"query_athena", "check_vendor_compliance"} :
          AtPc(tool, "get_results")
    /\ q_pc = "idle"
    /\ athena_state' = "QUEUED"
    /\ athena_reason' = NoValue
    /\ q_pc' = "loop"
    /\ q_wait_count' = 0
    /\ q_status' = NoValue
    /\ q_checks' = 0
    /\ q_return' = PyNone
    /\ UNCHANGED <<tl_tool, tl_input, tl_stack, tl_exc, tl_ret, tl_aws_failed,
                   tl_result>>

\* ... and ends, by a return or by the exception of an Athena call.
GetQueryResultsEnds ==
    /\ ToolsOnly
    /\ \E tool \in {"query_athena", "check_vendor_compliance"} :
          AtPc(tool, "get_results")
    /\ q_pc \in {"returned", "raised"}
    /\ NoAthenaCall
    /\ IF q_pc = "raised"
          THEN Raises /\ tl_aws_failed' = TRUE
          ELSE GoTo("format") /\ UNCHANGED tl_aws_failed
    /\ UNCHANGED <<tl_tool, tl_input>>

\* query_athena after get_query_results: the error of the dict, the text
\* for no rows, or the rows.
FormatQueryResult ==
    /\ ToolsOnly
    /\ AtPc("query_athena", "format")
    /\ NoAthenaCall
    /\ IF q_return.kind = "error"
          THEN Returns(QueryFailed(q_return))
          ELSE \/ Returns(<<"No results found for your query.">>)
               \/ Returns(<<"rows">>)
    /\ UNCHANGED <<tl_tool, tl_input, tl_exc, tl_aws_failed>>

\* check_vendor_compliance after get_query_results.
FormatComplianceResult ==
    /\ ToolsOnly
    /\ AtPc("check_vendor_compliance", "format")
    /\ NoAthenaCall
    /\ IF q_return.kind = "error"
          THEN Returns(<<"Error querying compliance database: ">> \o QueryFailed(q_return))
          ELSE \/ Returns(<<"No compliance data found for vendors: ", "vendors">>)
               \/ Returns(<<"rows">>)
    /\ UNCHANGED <<tl_tool, tl_input, tl_exc, tl_aws_failed>>

\* result = query_athena(query_sql), in get_financial_performance and
\* get_supplier_quality_metrics: the call begins.
CallQueryAthena ==
    /\ ToolsOnly
    /\ \E tool \in {"get_financial_performance", "get_supplier_quality_metrics"} :
          AtPc(tool, "query")
    /\ NoAthenaCall
    /\ tl_stack' = Append([tl_stack EXCEPT ![Len(tl_stack)].pc = "result"],
                          [tool |-> "query_athena", pc |-> FirstPc("query_athena")])
    /\ UNCHANGED <<tl_tool, tl_input, tl_exc, tl_ret, tl_aws_failed, tl_result>>

\* if "No results found" in result: the tool's own text; else result.
ReturnQueryResult ==
    /\ ToolsOnly
    /\ \E tool \in {"get_financial_performance", "get_supplier_quality_metrics"} :
          AtPc(tool, "result")
    /\ tl_ret # PyNone
    /\ NoAthenaCall
    /\ IF tl_ret.str = <<"No results found for your query.">>
          THEN Returns(<<IF Top.tool = "get_financial_performance"
                            THEN "No financial performance data found for material "
                            ELSE "No quality metrics found for material ",
                         "material_number", ".">>)
          ELSE Returns(tl_ret.str)
    /\ UNCHANGED <<tl_tool, tl_input, tl_exc, tl_aws_failed>>

\* validate_rfq_data: no AWS call.
ValidateRfqData ==
    /\ ToolsOnly
    /\ AtPc("validate_rfq_data", "validate")
    /\ NoAthenaCall
    /\ IF tl_input = "fields missing"
          THEN Returns(<<"Missing required information: ", "fields">>)
          ELSE Returns(<<"RFQ data validated successfully: ", "json">>)
    /\ UNCHANGED <<tl_tool, tl_input, tl_exc, tl_aws_failed>>

\* execute_python: the S3 client and the presigned URL, then the code
\* interpreter session and its invoke; each may raise.
ExecutePythonCall ==
    /\ ToolsOnly
    /\ \E pc \in {"presign", "invoke"} :
          /\ AtPc("execute_python", pc)
          /\ \/ /\ GoTo(IF pc = "presign" THEN "invoke" ELSE "stream")
                /\ UNCHANGED tl_aws_failed
             \/ /\ Raises
                /\ tl_aws_failed' = TRUE
    /\ NoAthenaCall
    /\ UNCHANGED <<tl_tool, tl_input>>

\* execute_python: the events of the response were read; the tool returns
\* the image tag when the output held [S3_SUCCESS], the output otherwise;
\* reading the stream or leaving the session may raise.
ExecutePythonStream ==
    /\ ToolsOnly
    /\ AtPc("execute_python", "stream")
    /\ NoAthenaCall
    /\ \/ /\ Returns(<<"[CODE_START]", "code", "[IMAGE]", "s3_url", "[/IMAGE]">>)
          /\ UNCHANGED <<tl_exc, tl_aws_failed>>
       \/ /\ Returns(<<"Code executed but chart upload failed. Output: ", "result_text">>)
          /\ UNCHANGED <<tl_exc, tl_aws_failed>>
       \/ /\ Raises
          /\ tl_aws_failed' = TRUE
    /\ UNCHANGED <<tl_tool, tl_input>>

\* An exception in flight: the except clause of the tool returns its
\* message when the statement stands inside the try; otherwise the
\* exception leaves the tool, for its caller or for the agent.
HandleException ==
    /\ ToolsOnly
    /\ tl_exc
    /\ NoAthenaCall
    /\ IF Top.pc \in TryBlock(Top.tool)
          THEN /\ tl_exc' = FALSE
               /\ Returns(ExceptMessage(Top.tool))
          ELSE /\ tl_stack' = SubSeq(tl_stack, 1, Len(tl_stack) - 1)
               /\ tl_exc' = (Len(tl_stack) > 1)
               /\ tl_result' = IF Len(tl_stack) = 1 THEN [raised |-> TRUE] ELSE tl_result
               /\ UNCHANGED tl_ret
    /\ UNCHANGED <<tl_tool, tl_input, tl_aws_failed>>

ToolsNext ==
    \/ LookupSchema
    \/ ParseVendorNumbers
    \/ StartQueryExecution
    \/ CallGetQueryResults
    \/ GetQueryResultsEnds
    \/ FormatQueryResult
    \/ FormatComplianceResult
    \/ CallQueryAthena
    \/ ReturnQueryResult
    \/ ValidateRfqData
    \/ ExecutePythonCall
    \/ ExecutePythonStream
    \/ HandleException
    \/ AthenaNext

(***************************************************************************)
(* spa_multi_agent_system: two requests in one event loop                  *)
(***************************************************************************)

\* The most events one agent stream holds in the model.
MaxStreamLen == 2

\* The two requests the event loop serves at the same time.
Requests == {1, 2}

\* The payloads of the requests: no dict, a dict without a prompt, a prompt.
RequestPayloads ==
    {[type |-> "NoneType", items |-> <<>>],
     [type |-> "dict", items |-> [user_id |-> "u1"]],
     [type |-> "dict", items |-> [prompt |-> "show vendors", user_id |-> "u1"]]}

\* The n-th event of the stream of an agent.
StreamEvent(agent, n) == [agent |-> agent, index |-> n]

\* The streams an agent can have: some events, then the end or an exception.
AgentStreams(agent) ==
    {[events |-> [n \in 1..len |-> StreamEvent(agent, n)], raises |-> r] :
        len \in 0..MaxStreamLen, r \in BOOLEAN}

\* One Agent object for all requests.
SharedAgent(r) == 1

\* session_agent = Agent(...): every call builds an Agent of its own.
SessionAgent(r) == r

\* The module-level state the handler can see.
ModuleState ==
    <<memory_id, mcp_tools, mcp_tools_cache, mcp_client, access_token_cache,
      token_expiry>>

\* No request is at the single-request handlers of the model.
HandlersIdle ==
    /\ s_handler = "entrypoint"
    /\ s_payload = [type |-> "NoneType", items |-> <<>>]
    /\ s_pc = "idle"
    /\ s_user_input = NoValue
    /\ s_session_manager = NoValue
    /\ s_memory_touched = FALSE
    /\ s_agent_created = FALSE
    /\ s_consumed = 0
    /\ s_full_response = <<>>
    /\ s_out = <<>>

RequestsIdle ==
    /\ agent_stream = [a \in Requests |-> [events |-> <<>>, raises |-> FALSE]]
    /\ agent_cursor = [a \in Requests |-> 0]
    /\ rq_payload = [r \in Requests |-> [type |-> "NoneType", items |-> <<>>]]
    /\ rq_agent_fails = [r \in Requests |-> FALSE]
    /\ rq_pc = [r \in Requests |-> "idle"]
    /\ rq_user_input = [r \in Requests |-> NoValue]
    /\ rq_session_manager = [r \in Requests |-> PyNone]
    /\ rq_agent = [r \in Requests |-> 0]
    /\ rq_out = [r \in Requests |-> <<>>]

\* Two requests have arrived, after module start-up left memory_id at None or
\* at a memory id.
RequestsInit ==
    /\ memory_id \in {NoValue, "mem-1"}
    /\ agent_stream \in {f \in [Requests -> UNION {AgentStreams(a) : a \in Requests}] :
                            \A a \in Requests : f[a] \in AgentStreams(a)}
    /\ agent_cursor = [a \in Requests |-> 0]
    /\ rq_payload \in [Requests -> RequestPayloads]
    /\ rq_agent_fails \in [Requests -> BOOLEAN]
    /\ rq_pc = [r \in Requests |-> "start"]
    /\ rq_user_input = [r \in Requests |-> NoValue]
    /\ rq_session_manager = [r \in Requests |-> PyNone]
    /\ rq_agent = [r \in Requests |-> 0]
    /\ rq_out = [r \in Requests |-> <<>>]

RequestsOnly ==
    UNCHANGED <<athenaVars, gatewayVars, crawlerVars, extractVars,
                streamVars, deployVars, bucketVars, tokenVars, mcpVars, setupVars,
                toolVars>>

\* yield {"error": ...}; the generator ends when it is resumed.
YieldsError(r, msg) ==
    /\ rq_out' = [rq_out EXCEPT ![r] = Append(@, [error |-> msg])]
    /\ rq_pc' = [rq_pc EXCEPT ![r] = "done"]

\* The handler up to its first suspension: the payload and prompt checks, the
\* session manager, the Agent; then the first yield or the first wait for an
\* event.  None of this code awaits, so it runs in one piece.
BeginRequest(r) ==
    /\ RequestsOnly
    /\ rq_pc[r] = "start"
    /\ IF InvalidFormat(rq_payload[r])
          THEN /\ YieldsError(r, "Invalid request format")
               /\ UNCHANGED <<rq_user_input, rq_session_manager, rq_agent>>
       ELSE IF PromptMissing(DictGet(rq_payload[r], "prompt", NoValue))
          THEN /\ YieldsError(r, "No prompt provided in request")
               /\ rq_user_input' = [rq_user_input EXCEPT ![r] =
                                       DictGet(rq_payload[r], "prompt", NoValue)]
               /\ UNCHANGED <<rq_session_manager, rq_agent>>
       ELSE /\ rq_user_input' = [rq_user_input EXCEPT ![r] =
                                    DictGet(rq_payload[r], "prompt", NoValue)]
            /\ IF StrTruthy(memory_id)
                  THEN \E ok \in BOOLEAN :
                          rq_session_manager' =
                             [rq_session_manager EXCEPT ![r] =
                                 IF ok THEN [memory_id |-> memory_id,
                                             session_id |-> DictGet(rq_payload[r],
                                                 "user_id", "default-user")]
                                       ELSE PyNone]
                  ELSE UNCHANGED rq_session_manager
            /\ IF rq_agent_fails[r]
                  THEN /\ YieldsError(r, "Error processing request")
                       /\ UNCHANGED rq_agent
                  ELSE /\ rq_agent' = [rq_agent EXCEPT ![r] = SessionAgent(r)]
                       /\ rq_pc' = [rq_pc EXCEPT ![r] = "stream"]
                       /\ UNCHANGED rq_out
    /\ UNCHANGED <<agent_stream, agent_cursor, rq_payload, rq_agent_fails>>

\* async for event in session_agent.stream_async(user_input): yield event
YieldAgentEvent(r) ==
    /\ RequestsOnly
    /\ rq_pc[r] = "stream"
    /\ agent_cursor[rq_agent[r]] < Len(agent_stream[rq_agent[r]].events)
    /\ agent_cursor' = [agent_cursor EXCEPT ![rq_agent[r]] = @ + 1]
    /\ rq_out' = [rq_out EXCEPT ![r] =
                     Append(@, agent_stream[rq_agent[r]].events[
                                   agent_cursor[rq_agent[r]] + 1])]
    /\ UNCHANGED <<agent_stream, rq_payload, rq_agent_fails, rq_pc,
                   rq_user_input, rq_session_manager, rq_agent>>

\* The stream is exhausted: the generator ends.
RequestStreamEnds(r) ==
    /\ RequestsOnly
    /\ rq_pc[r] = "stream"
    /\ agent_cursor[rq_agent[r]] >= Len(agent_stream[rq_agent[r]].events)
    /\ ~agent_stream[rq_agent[r]].raises
    /\ rq_pc' = [rq_pc EXCEPT ![r] = "done"]
    /\ UNCHANGED <<agent_stream, agent_cursor, rq_payload, rq_agent_fails,
                   rq_user_input, rq_session_manager, rq_agent, rq_out>>

\* The stream raises: except Exception as e: yield {"error": ...}
RequestStreamRaises(r) ==
    /\ RequestsOnly
    /\ rq_pc[r] = "stream"
    /\ agent_cursor[rq_agent[r]] >= Len(agent_stream[rq_agent[r]].events)
    /\ agent_stream[rq_agent[r]].raises
    /\ YieldsError(r, "Error processing request")
    /\ UNCHANGED <<agent_stream, agent_cursor, rq_payload, rq_agent_fails,
                   rq_user_input, rq_session_manager, rq_agent>>

RequestsNext ==
    \E r \in Requests :
        \/ BeginRequest(r)
        \/ YieldAgentEvent(r)
        \/ RequestStreamEnds(r)
        \/ RequestStreamRaises(r)

(***************************************************************************)
(* Specifications: one per program                                         *)
(***************************************************************************)

InitAthena ==
    /\ AthenaInit
    /\ GatewayIdle
    /\ CrawlerIdle
    /\ ExtractIdle
    /\ StreamIdle
    /\ DeployIdle
    /\ BucketIdle
    /\ TokenIdle
    /\ McpIdle
    /\ SetupIdle
    /\ ToolsIdle
    /\ RequestsIdle

SpecAthena == InitAthena /\ [][AthenaNext]_vars

InitGateway ==
    /\ AthenaIdle
    /\ GatewayInit
    /\ CrawlerIdle
    /\ ExtractIdle
    /\ StreamIdle
    /\ DeployIdle
    /\ BucketIdle
    /\ TokenIdle
    /\ McpIdle
    /\ SetupIdle
    /\ ToolsIdle
    /\ RequestsIdle

SpecGateway == InitGateway /\ [][GatewayNext]_vars

InitCrawler ==
    /\ AthenaIdle
    /\ GatewayIdle
    /\ CrawlerInit
    /\ ExtractIdle
    /\ StreamIdle
    /\ DeployIdle
    /\ BucketIdle
    /\ TokenIdle
    /\ McpIdle
    /\ SetupIdle
    /\ ToolsIdle
    /\ RequestsIdle

SpecCrawler == InitCrawler /\ [][CrawlerNext]_vars

InitExtract ==
    /\ AthenaIdle
    /\ GatewayIdle
    /\ CrawlerIdle
    /\ ExtractInit
    /\ StreamIdle
    /\ DeployIdle
    /\ BucketIdle
    /\ TokenIdle
    /\ McpIdle
    /\ SetupIdle
    /\ ToolsIdle
    /\ RequestsIdle

SpecExtract == InitExtract /\ [][ExtractNext]_vars

InitStream ==
    /\ AthenaIdle
    /\ GatewayIdle
    /\ CrawlerIdle
    /\ ExtractIdle
    /\ StreamInit
    /\ DeployIdle
    /\ BucketIdle
    /\ TokenIdle
    /\ McpIdle
    /\ SetupIdle
    /\ ToolsIdle
    /\ RequestsIdle

SpecStream == InitStream /\ [][StreamNext]_vars

InitDeploy ==
    /\ AthenaIdle
    /\ GatewayIdle
    /\ CrawlerIdle
    /\ ExtractIdle
    /\ StreamIdle
    /\ DeployInit
    /\ BucketIdle
    /\ TokenIdle
    /\ McpIdle
    /\ SetupIdle
    /\ ToolsIdle
    /\ RequestsIdle

SpecDeploy == InitDeploy /\ [][DeployNext]_vars

InitBucket ==
    /\ AthenaIdle
    /\ GatewayIdle
    /\ CrawlerIdle
    /\ ExtractIdle
    /\ StreamIdle
    /\ DeployIdle
    /\ BucketInit
    /\ TokenIdle
    /\ McpIdle
    /\ SetupIdle
    /\ ToolsIdle
    /\ RequestsIdle

SpecBucket == InitBucket /\ [][BucketNext]_vars

InitToken ==
    /\ AthenaIdle
    /\ GatewayIdle
    /\ CrawlerIdle
    /\ ExtractIdle
    /\ StreamIdle
    /\ DeployIdle
    /\ BucketIdle
    /\ TokenInit
    /\ McpIdle
    /\ SetupIdle
    /\ ToolsIdle
    /\ RequestsIdle

SpecToken == InitToken /\ [][TokenNext]_vars

InitMcp ==
    /\ AthenaIdle
    /\ GatewayIdle
    /\ CrawlerIdle
    /\ ExtractIdle
    /\ StreamIdle
    /\ DeployIdle
    /\ BucketIdle
    /\ TokenIdle
    /\ McpInit
    /\ SetupIdle
    /\ ToolsIdle
    /\ RequestsIdle

SpecMcp == InitMcp /\ [][McpNext]_vars

InitSetup ==
    /\ AthenaIdle
    /\ GatewayIdle
    /\ CrawlerIdle
    /\ ExtractIdle
    /\ StreamIdle
    /\ DeployIdle
    /\ BucketIdle
    /\ TokenIdle
    /\ McpIdle
    /\ SetupInit
    /\ ToolsIdle
    /\ RequestsIdle

SpecSetup == InitSetup /\ [][SetupNext]_vars

InitTools ==
    /\ AthenaIdle
    /\ GatewayIdle
    /\ CrawlerIdle
    /\ ExtractIdle
    /\ StreamIdle
    /\ DeployIdle
    /\ BucketIdle
    /\ TokenIdle
    /\ McpIdle
    /\ SetupIdle
    /\ ToolsInit
    /\ RequestsIdle

SpecTools == InitTools /\ [][ToolsNext]_vars

InitRequests ==
    /\ AthenaIdle
    /\ GatewayIdle
    /\ CrawlerIdle
    /\ ExtractIdle
    /\ HandlersIdle
    /\ DeployIdle
    /\ BucketIdle
    /\ TokenIdle
    /\ McpIdle
    /\ SetupIdle
    /\ ToolsIdle
    /\ RequestsInit

SpecRequests == InitRequests /\ [][RequestsNext]_vars

(***************************************************************************)
(* Properties                                                              *)
(***************************************************************************)

\* C1 (as stated): get_query_results returns only after a status check has
\* observed a terminal state; nothing is returned while the last observed
\* state is QUEUED or RUNNING.
C1_ReturnsOnlyAfterTerminal ==
    q_pc = "returned" => q_status \in {"SUCCEEDED", "FAILED", "CANCELLED"}

\* C1 (amended): get_query_results returns only after a status check has
\* observed a terminal state, or after 30 status checks none of which
\* observed one; in the second case the value returned is the error dict.
C1_ReturnsAfterTerminalOrTimeout ==
    q_pc = "returned" =>
        \/ q_status \in {"SUCCEEDED", "FAILED", "CANCELLED"}
        \/ /\ q_status \in {"QUEUED", "RUNNING"}
           /\ q_checks = 30
           /\ q_return.kind = "error"

\* A return after the 30 checks ran out with the query still running.
C1_Witness ==
    /\ q_pc = "returned"
    /\ q_status = "RUNNING"
    /\ q_checks = 30

\* C2 (as stated): the gateway target is created only after a get-gateway
\* poll has reported the gateway READY.
C2_TargetOnlyAfterReady ==
    g_target_cmd_run => g_seen_ready

\* C2 (amended): the gateway target is created only after a get-gateway poll
\* has reported READY, or after the 60 seconds of waiting (12 polls, 5
\* seconds apart) ran out with no poll reporting READY, which the script
\* announces as a timeout before it goes on.
C2_TargetAfterReadyOrTimeout ==
    g_target_cmd_run =>
        \/ g_seen_ready /\ g_gateway_status = "READY"
        \/ ~g_seen_ready /\ g_polls = 12 /\ g_timeout_warned

\* The target was created although no poll ever reported READY.
C2_Witness ==
    /\ g_target_created
    /\ ~g_seen_ready
    /\ g_polls = 12

\* C4: with wait_for_completion, run_glue_crawlers returns only after, for
\* every name of the list, a get_crawler poll has observed a state other
\* than RUNNING or STOPPING; without it, get_crawler is never called.
C4_ReturnsAfterEveryCrawlerSettled ==
    /\ (c_pc = "returned" /\ c_wait) =>
           \A i \in 1..Len(c_names) :
               \E st \in CrawlerStates \ {"RUNNING", "STOPPING"} :
                   <<c_names[i], st>> \in c_observed
    /\ ~c_wait => (~c_polled /\ c_observed = {})

\* A waiting run over two different crawlers returned, after a poll had seen
\* one of them STOPPING.
C4_Witness ==
    /\ c_pc = "returned"
    /\ c_wait
    /\ Len(c_names) = 2
    /\ c_names[1] # c_names[2]
    /\ \E n \in CrawlerNames : <<n, "STOPPING">> \in c_observed

\* The patterns of the running loop that re.findall found in the text.
MatchingPatterns == {i \in e_consulted : e_matches[i] # <<>>}

\* The first of them in the priority list.
FirstMatching == CHOOSE i \in MatchingPatterns : \A j \in MatchingPatterns : i <= j

\* The loops consult the patterns in list order and stop at the first one
\* that matches: nothing after it is given to re.findall, and a loop that
\* ends without a match has tried every pattern.
ConsultedInOrder ==
    /\ e_pc \in {"loop", "loop_done"} =>
           /\ \A i \in e_consulted : \A j \in 1..i : j \in e_consulted
           /\ \A i \in MatchingPatterns : \A j \in e_consulted : j <= i
    /\ (e_pc = "loop_done" /\ MatchingPatterns = {}) =>
           e_consulted = 1..PatternCount[e_field]

\* C5 (as stated): each field is the last match of the first pattern of its
\* list that matches, None when none matches, and no later pattern is
\* consulted.
C5_FieldIsLastMatch ==
    /\ ConsultedInOrder
    /\ e_pc = "loop_done" =>
           e_locals[Fields[e_field]] =
               IF MatchingPatterns = {} THEN PyNone
               ELSE PyStr(e_matches[FirstMatching][Len(e_matches[FirstMatching])])
    /\ e_pc = "returned" => \A f \in 1..5 : e_return[Fields[f]] = e_locals[Fields[f]]

\* C5 (amended): material_number, supplier_id, quantity and delivery_date are
\* the last match of the first pattern of their list that matches; rfq_name
\* is that last match with leading and trailing whitespace stripped; each is
\* None when no pattern of its list matches, and no pattern after the first
\* matching one is consulted.
C5_FieldIsLastMatchNameStripped ==
    /\ ConsultedInOrder
    /\ e_pc = "loop_done" =>
           e_locals[Fields[e_field]] =
               IF MatchingPatterns = {} THEN PyNone
               ELSE LET last == e_matches[FirstMatching][Len(e_matches[FirstMatching])]
                    IN  IF e_field = 5 THEN PyStr(Strip(last)) ELSE PyStr(last)
    /\ e_pc = "returned" => \A f \in 1..5 : e_return[Fields[f]] = e_locals[Fields[f]]

\* The rfq_name loop ended on its third pattern, which matched twice, the
\* last match ending in a blank and differing from the first.
C5_Witness ==
    /\ e_pc = "loop_done"
    /\ e_field = 5
    /\ MatchingPatterns = {3}
    /\ e_matches[3] = <<(<<" ", "R">>), (<<"Q", " ">>)>>
    /\ e_locals["rfq_name"] = PyStr(<<"Q">>)
    /\ e_locals["quantity"] = PyNone
    /\ e_locals["supplier_id"] # PyNone

\* The positions of the 'complete' and 'error' events among those yielded.
TerminalEvents ==
    {i \in 1..Len(s_out) : s_out[i].type \in {"complete", "error"}}

\* C7: spa_multi_agent_system_streaming yields exactly one terminal event
\* ('complete' or 'error'); it is the last event yielded, so that no chunk or
\* tool event follows it and 'complete' and 'error' never both occur.
C7_OneTerminalEventLast ==
    s_handler = "streaming" =>
        /\ Cardinality(TerminalEvents) <= 1
        /\ \A i \in TerminalEvents : i = Len(s_out)
        /\ s_pc = "done" => Cardinality(TerminalEvents) = 1

\* The streaming generator ended with 'complete' after a chunk and a tool
\* event.
C7_Witness ==
    /\ s_handler = "streaming"
    /\ s_pc = "done"
    /\ Len(s_out) = 3
    /\ s_out[1].type = "chunk"
    /\ s_out[2].type = "tool"
    /\ s_out[3].type = "complete"

\* The data of the 'chunk' events among the first n events yielded, joined.
RECURSIVE ChunksJoined(_)
ChunksJoined(n) ==
    IF n = 0 THEN <<>>
    ELSE IF s_out[n].type = "chunk" THEN ChunksJoined(n - 1) \o s_out[n].data.str
    ELSE ChunksJoined(n - 1)

\* C8: the data of the 'complete' event is the concatenation, in yield
\* order, of the data of all 'chunk' events yielded before it.
C8_CompleteIsConcatenation ==
    (s_handler = "streaming" /\ s_out # <<>> /\ s_out[Len(s_out)].type = "complete") =>
        s_out[Len(s_out)].data = PyStr(ChunksJoined(Len(s_out) - 1))

\* 'complete' after two non-empty chunks with a tool event between them.
C8_Witness ==
    /\ s_handler = "streaming"
    /\ Len(s_out) = 4
    /\ s_out[1] = [type |-> "chunk", data |-> PyStr(<<"b", "c">>)]
    /\ s_out[2].type = "tool"
    /\ s_out[3] = [type |-> "chunk", data |-> PyStr(<<"a">>)]
    /\ s_out[4] = [type |-> "complete", data |-> PyStr(<<"b", "c", "a">>)]

\* The payload is empty, is no dict, or has a missing, None or empty prompt.
BadPayload ==
    \/ s_payload.type # "dict"
    \/ DOMAIN s_payload.items = {}
    \/ "prompt" \notin DOMAIN s_payload.items
    \/ s_payload.items["prompt"] \in {NoValue, ""}

\* An error event of either generator.
IsErrorEvent(e) ==
    \/ DOMAIN e = {"error"}
    \/ DOMAIN e = {"type", "data"} /\ e.type = "error"

\* C9: on such a payload the generator yields exactly one event, an error
\* event, and ends; no session manager and no agent is created and the
\* memory service is not touched.
C9_BadPayloadOneErrorOnly ==
    BadPayload =>
        /\ Len(s_out) <= 1
        /\ \A i \in 1..Len(s_out) : IsErrorEvent(s_out[i])
        /\ s_out # <<>> => s_pc = "done"
        /\ s_pc = "done" => Len(s_out) = 1
        /\ s_session_manager = NoValue
        /\ ~s_agent_created
        /\ ~s_memory_touched
        /\ s_pc \in {"validate", "prompt", "done"}

\* The entrypoint answered a dict payload whose prompt is empty, with a
\* memory configured.
C9_Witness ==
    /\ s_handler = "entrypoint"
    /\ s_payload.type = "dict"
    /\ "prompt" \in DOMAIN s_payload.items
    /\ s_payload.items["prompt"] = ""
    /\ memory_id # NoValue
    /\ s_pc = "done"
    /\ s_out = <<[error |-> "No prompt provided in request"]>>


\* The position of `step` in the log of succeeded steps, 0 when absent.
StepPos(step) ==
    IF \E i \in 1..Len(d_steps) : d_steps[i] = step
       THEN CHOOSE i \in 1..Len(d_steps) : d_steps[i] = step
       ELSE 0

\* C3: the deployment file is written, and success reported, only if a
\* status poll returned READY; after a poll that returned a failed status,
\* and after 60 attempts none of which returned READY (raising ones
\* included), the run ends and the file is never written.
C3_DeploymentFileOnlyIfReady ==
    /\ (d_deploy_file # PyNone \/ d_reported \/ d_pc \in {"save", "done"}) =>
          ("ready" \in d_polls /\ d_status = "READY")
    /\ "failed" \in d_polls => (d_deploy_file = PyNone /\ d_pc = "end")
    /\ (d_attempt = max_attempts /\ "ready" \notin d_polls) =>
          (d_deploy_file = PyNone /\ d_pc \in {"monitor", "after_monitor", "end"})

\* A run whose status call raised and answered not-ready before READY came,
\* and wrote the file.
C3_Witness ==
    /\ d_pc = "done"
    /\ d_deploy_file # PyNone
    /\ "raised" \in d_polls
    /\ d_attempt > 1

\* The steps that launch depends on, in order.
RequiredBeforeLaunch ==
    <<"agent_file", "sts", "verify_s3", "role", "ci_bucket", "memory", "configure">>

\* C6: launch is called only after the agent file check, the identity, the
\* output bucket verification, the role, the code interpreter bucket, the
\* memory and configure succeeded in this order in the same run, configure
\* having been given allowedClients = [cognito_client_id]; once one of these
\* steps failed the run has ended and no later step was performed.
C6_LaunchOnlyAfterOrderedSteps ==
    /\ d_launch_called =>
          /\ \A i \in 1..Len(RequiredBeforeLaunch) :
                StepPos(RequiredBeforeLaunch[i]) > 0
          /\ \A i \in 1..(Len(RequiredBeforeLaunch) - 1) :
                StepPos(RequiredBeforeLaunch[i]) < StepPos(RequiredBeforeLaunch[i + 1])
          /\ d_authorizer # PyNone
          /\ d_authorizer.customJWTAuthorizer.allowedClients = <<d_args.cognito_client_id>>
    /\ \A i \in 1..Len(RequiredBeforeLaunch) :
          d_failed = RequiredBeforeLaunch[i] =>
             /\ d_pc = "end"
             /\ ~d_launch_called
             /\ d_deploy_file = PyNone
             /\ \A j \in 1..Len(AllSteps) :
                   StepPos(AllSteps[j]) > 0 =>
                      \E k \in (j + 1)..Len(AllSteps) :
                         AllSteps[k] = RequiredBeforeLaunch[i]

\* launch was called in a run given both client ids.
C6_Witness ==
    /\ d_launch_called
    /\ d_args.cognito_client_id = "client-B"
    /\ d_args.gateway_cognito_client_id # NoValue

\* The memory step was entered in this run.
ReachedMemoryStep == d_failed = "memory" \/ StepPos("memory") > 0

C11_FurtherCallsOnlyLookUp ==
    (b_n > 0 /\ b_args \in b_returned) =>
        /\ b_result = BucketName(b_args[1])
        /\ \A i \in 1..Len(b_calls) :
              b_calls[i] \notin {"create_bucket", "put_bucket_cors"}
        /\ s3_buckets[b_args[1]] = b_before


\* C12: a call that finds a cached token before its recorded expiry returns
\* that token and makes no HTTP request; a call at or after the expiry makes
\* the request and returns the token of the response or None, never the
\* cached token.
C12_NoCachedTokenFromExpiryOn ==
    (t_n > 0 /\ t_cache_before # PyNone /\ t_expiry_before # PyNone) =>
        IF t_called_at < t_expiry_before.num
           THEN t_return = t_cache_before /\ t_requests = 0
           ELSE /\ t_requests = 1
                /\ t_return \in {PyNone, t_response}
                /\ t_return # t_cache_before

\* A call made at the very second of the expiry fetched and returned a new
\* token.
C12_Witness ==
    /\ t_n > 1
    /\ t_cache_before # PyNone
    /\ t_expiry_before # PyNone
    /\ t_called_at = t_expiry_before.num
    /\ t_return # PyNone
    /\ t_return = t_response


\* C13: every call after the first returns the list the first call returned
\* (the one kept in mcp_tools) and requests no access token, opens no MCP
\* client and lists no tools.
C13_LoadedOnce ==
    m_n > 1 =>
        /\ PyList(m_return) = mcp_tools
        /\ m_token_requests = 0
        /\ m_clients_opened = 0
        /\ m_list_calls = 0

\* C13, amended: every call made after a call that loaded the tool list
\* (an empty one included) returns that list and requests no access token,
\* opens no MCP client and lists no tools, and the cache keeps the list; when
\* the first call was that call, the list is the one kept in mcp_tools.
C13_LoadedOnceAfterSuccess ==
    /\ (m_n > 0 /\ m_cache_before # PyNone) =>
          /\ mcp_tools_cache = m_cache_before
          /\ PyList(m_return) = m_cache_before
          /\ m_token_requests = 0
          /\ m_clients_opened = 0
          /\ m_list_calls = 0
    /\ (mcp_tools # PyNone /\ mcp_tools.list # <<>>) => mcp_tools_cache = mcp_tools

\* A later call was served the two tools an earlier call had loaded.
C13_Witness ==
    /\ m_n > 1
    /\ m_cache_before # PyNone
    /\ Len(m_return) = 2
    /\ PyList(m_return) = mcp_tools


\* The ids list_memories returned.
ListedIds == {ms_listed[i].id : i \in 1..Len(ms_listed)}

\* C14: once the setup is over, memory_id is the configured id when that id
\* is set and get_memory answered for it, and then no memories were listed;
\* otherwise, when the name is set, it is the id of the first listed memory
\* of that name (None when list_memories raised or lists none of that name);
\* otherwise None.  At every moment memory_id is None, an id get_memory
\* answered for, or an id list_memories returned, and a request gets a
\* session manager only for that memory_id.
C14_MemoryIdResolvedInOrder ==
    /\ ms_pc \in {"done", "serving"} =>
          IF StrTruthy(DEPLOYED_MEMORY_ID) /\ DEPLOYED_MEMORY_ID \in ms_verified
             THEN memory_id = DEPLOYED_MEMORY_ID /\ ms_list_calls = 0
          ELSE IF StrTruthy(DEPLOYED_MEMORY_NAME)
             THEN \/ /\ memory_id = NoValue
                     /\ \A i \in 1..Len(ms_listed) :
                           ms_listed[i].name # DEPLOYED_MEMORY_NAME
                  \/ \E i \in 1..Len(ms_listed) :
                        /\ ms_listed[i].name = DEPLOYED_MEMORY_NAME
                        /\ \A j \in 1..(i - 1) :
                              ms_listed[j].name # DEPLOYED_MEMORY_NAME
                        /\ memory_id = ms_listed[i].id
          ELSE memory_id = NoValue /\ ms_list_calls = 0
    /\ memory_id = NoValue \/ memory_id \in ms_verified \cup ListedIds
    /\ ms_session_manager # PyNone =>
          (memory_id # NoValue /\ ms_session_manager.memory_id = memory_id)

\* The configured id could not be verified and the second of two listed
\* memories of the configured name was not the one taken.
C14_Witness ==
    /\ ms_pc = "serving"
    /\ StrTruthy(DEPLOYED_MEMORY_ID)
    /\ ms_verified = {}
    /\ Len(ms_listed) = 2
    /\ ms_listed[1].name = DEPLOYED_MEMORY_NAME
    /\ ms_listed[2].name = DEPLOYED_MEMORY_NAME
    /\ ms_listed[1].id # ms_listed[2].id
    /\ memory_id = ms_listed[1].id
    /\ ms_session_manager # PyNone


\* get_query_results runs on once called: Python executes the next statement
\* of the function, whatever Athena does meanwhile.
SpecAthenaRuns ==
    /\ SpecAthena
    /\ WF_vars(CheckStatus \/ CheckStatusRaises \/ LoopTimeout
                  \/ ReturnResults \/ ReturnError \/ FetchRaises)

\* C17 (as stated): get_query_results makes at most 30 status checks and
\* comes to a return, never to an exception; what it returns is the result
\* set if and only if the last observed status is SUCCEEDED, and otherwise
\* the error dict built from StateChangeReason or 'Unknown error'.
C17_ReturnsWithin30Checks ==
    /\ q_checks <= 30
    /\ q_pc # "raised"
    /\ q_pc = "returned" =>
          IF q_status = "SUCCEEDED"
             THEN q_return = [kind |-> "ResultSet"]
             ELSE q_return = [kind |-> "error",
                              reason |-> IF athena_reason = NoValue
                                            THEN "Unknown error" ELSE athena_reason]

\* C17 (amended): get_query_results makes at most 30 status checks and then
\* ends, by a return or by the exception of one of its Athena calls; when it
\* returns, it returns the result set if and only if the last observed
\* status is SUCCEEDED, and otherwise the error dict built from
\* StateChangeReason or 'Unknown error'; when it raises, it returns nothing.
C17_EndsWithin30Checks ==
    /\ [](IF q_pc = "returned"
             THEN /\ q_checks <= 30
                  /\ IF q_status = "SUCCEEDED"
                        THEN q_return = [kind |-> "ResultSet"]
                        ELSE q_return = [kind |-> "error",
                                         reason |-> IF athena_reason = NoValue
                                                       THEN "Unknown error"
                                                       ELSE athena_reason]
             ELSE q_checks <= 30 /\ q_return = PyNone)
    /\ <>(q_pc \in {"returned", "raised"})

\* The result set was returned after the thirtieth check found SUCCEEDED.
C17_Witness ==
    /\ q_pc = "returned"
    /\ q_checks = 30
    /\ q_status = "SUCCEEDED"
    /\ q_return = [kind |-> "ResultSet"]


\* How the error messages of the tools begin.
ErrorPrefixes ==
    {ExceptMessage(tool)[1] : tool \in ToolNames}
        \cup {"Query failed: ", "Error querying compliance database: "}

\* C15: no tool hands an exception to the agent; what a tool hands back is a
\* str, and it is an error message whenever an AWS call made for the tool
\* raised, the status poll inside get_query_results included.
C15_ToolsReturnStrings ==
    /\ tl_result # [raised |-> TRUE]
    /\ ~(tl_exc /\ tl_stack = <<>>)
    /\ IF tl_result # PyNone
          THEN /\ DOMAIN tl_result = {"returned"}
               /\ tl_result.returned \in Seq(STRING)
               /\ tl_result.returned # <<>>
               /\ tl_aws_failed => tl_result.returned[1] \in ErrorPrefixes
          ELSE TRUE

\* get_financial_performance handed back the error message of query_athena
\* after a status poll of get_query_results had raised.
C15_Witness ==
    /\ tl_tool = "get_financial_performance"
    /\ q_pc = "raised"
    /\ q_checks > 1
    /\ tl_aws_failed
    /\ tl_result = [returned |-> <<"Error executing query: ", "str(e)">>]

\* What the handler yields for a request that runs alone: the error of its
\* payload check, or the events of the stream of its agent and the error
\* event if the stream ends with an exception.
EventsAlone(r) ==
    IF InvalidFormat(rq_payload[r])
       THEN <<[error |-> "Invalid request format"]>>
    ELSE IF PromptMissing(DictGet(rq_payload[r], "prompt", NoValue))
       THEN <<[error |-> "No prompt provided in request"]>>
    ELSE IF rq_agent_fails[r]
       THEN <<[error |-> "Error processing request"]>>
    ELSE IF rq_agent[r] = 0
       THEN <<>>
    ELSE agent_stream[rq_agent[r]].events \o
         (IF agent_stream[rq_agent[r]].raises
             THEN <<[error |-> "Error processing request"]>>
             ELSE <<>>)

\* C16: while two requests are handled, interleaved at their await points,
\* no step writes the module-level state (memory_id, mcp_tools, the tool
\* cache, the MCP client, the token cache), and each request yields the
\* events it yields when it runs alone on the same agent stream: a prefix of
\* them while it runs, all of them when it has ended.
C16_RequestsDoNotInterfere ==
    /\ [][ModuleState' = ModuleState]_vars
    /\ [](\A r \in Requests :
            /\ \A i \in 1..Len(rq_out[r]) :
                  /\ i <= Len(EventsAlone(r))
                  /\ rq_out[r][i] = EventsAlone(r)[i]
            /\ rq_pc[r] = "done" => rq_out[r] = EventsAlone(r))

\* Both requests are suspended in the middle of their streams: each has
\* yielded the first event of its own agent and waits for the next one, with
\* a session manager on the memory both share.
C16_Witness ==
    /\ memory_id = "mem-1"
    /\ \A r \in Requests :
          /\ rq_pc[r] = "stream"
          /\ rq_session_manager[r] # PyNone
          /\ rq_out[r] = <<StreamEvent(rq_agent[r], 1)>>
          /\ agent_cursor[rq_agent[r]] < Len(agent_stream[rq_agent[r]].events)

====
